---- MODULE Spec2Model ----
(***************************************************************************)
(* Model of the tutorial step executor: the execution engine               *)
(* (TutorialExecutor), the sandbox contract it drives, the container       *)
(* sandbox's stream decoder and the two sandbox backends' executeCommand,  *)
(* the file changes (fileChangeUtils.ts and the two applyFileChange), the  *)
(* teardown of the sandboxes under the command-line drivers, and the retry *)
(* loop of the validator's main.                                           *)
(*                                                                         *)
(* Representation of JavaScript values:                                    *)
(*   - a path string is a record [abs, segs]: abs says whether the string  *)
(*     starts with "/", segs are its non-empty segments in order, so       *)
(*     "a/b" is [abs |-> FALSE, segs |-> <<"a","b">>] and "" is            *)
(*     [abs |-> FALSE, segs |-> <<>>]. Trailing and doubled slashes are    *)
(*     not represented (the code removes them with replace(/\/+/g, "/")    *)
(*     or filter(p => p)).                                                 *)
(*   - a text is a sequence of one-character strings.                      *)
(*   - an optional value is <<>> (undefined) or <<v>>.                     *)
(***************************************************************************)
EXTENDS Integers, Sequences, FiniteSets, TLC

(***************************************************************************)
(* Bounds of the model.                                                    *)
(***************************************************************************)
MaxSteps == 2
MaxFrames == 2
MaxPayload == 2
MaxCuts == 2
MaxIndex == 3
MaxProcs == 2
MaxIters == 2

VARIABLES
    spec,               \* TutorialExecutor.spec: the TutorialSpec given to the constructor
    pc,                 \* position inside execute()
    currentWorkingDir,  \* TutorialExecutor.currentWorkingDir
    stepResults,        \* the local stepResults of execute()
    result,             \* the ExecutionResult returned by execute(), <<>> before it returns
    calls,              \* history: the sandbox calls made so far, in order
    frames,             \* executeCommand: the frames the container runtime sends for the command
    processExitCode,    \* executeCommand: the exit code of the command's process
    commandDir,         \* executeCommand: its workingDirectory argument
    chunks,             \* DockerSandbox.executeCommand: the 'data' chunks still to arrive
    stdoutChunks,       \* DockerSandbox.executeCommand: stdoutChunks
    stderrChunks,       \* DockerSandbox.executeCommand: stderrChunks
    dockerResult,       \* what DockerSandbox.executeCommand resolved with, <<>> before
    localResult,        \* what LocalSandbox.executeCommand returned, <<>> before
    file,               \* applyFileChange: the target file's contents, <<>> if absent
    jsonPath,           \* applyFileChange: whether the target path ends in .json
    fileChange,         \* applyFileChange: the FileChange applied, <<>> before
    editResult,         \* the edit's step result, <<>> before
    driver,             \* who calls cleanup: "cli", "validator" or "none" (a direct call)
    backend,            \* the Sandbox implementation: "local" or "docker"
    dpc,                \* the caller's statements still to run
    executed,           \* how execute() ended: "success", "failure", "threw", "" before
    keepArg,            \* cleanup's keepWorkspace argument, <<>> if omitted
    keepWorkspace,      \* Sandbox.keepWorkspace
    cpc,                \* position inside Sandbox.cleanup
    container,          \* DockerSandbox.container is not null
    containerState,     \* the container itself: "running", "stopped" or "gone"
    backgroundProcesses,\* LocalSandbox.backgroundProcesses
    procIndex,          \* killBackgroundProcesses: index of the loop
    alive,              \* the pids of the processes that exist
    workspaceExists,    \* the workspace root directory exists on the host
    teardown,           \* history: the teardown operations attempted so far, in order
    exitStatus,         \* the caller's exit code, <<>> before it exits or returns
    maxIters,           \* the validator's main: the value of --max-iters
    outFile,            \* the validator's main: whether --out names a file
    debugFiles,         \* the validator's main: whether --debugFiles is set
    iter,               \* the validator's main: the loop variable
    apc,                \* position inside the validator's main
    priorFailures,      \* the validator's main: the kinds of the dossiers pushed so far
    attempts,           \* history: what each iteration did, in order
    agentExit           \* the code the validator's main exited with, <<>> before

engineVars == <<spec, pc, currentWorkingDir, stepResults, result, calls>>

sandboxVars == <<frames, processExitCode, commandDir, chunks, stdoutChunks, stderrChunks,
                 dockerResult, localResult>>

editVars == <<file, jsonPath, fileChange, editResult>>

teardownVars == <<driver, backend, dpc, executed, keepArg, keepWorkspace, cpc, container,
                  containerState, backgroundProcesses, procIndex, alive, workspaceExists,
                  teardown, exitStatus>>

agentVars == <<maxIters, outFile, debugFiles, iter, apc, priorFailures, attempts, agentExit>>

vars == <<engineVars, sandboxVars, editVars, teardownVars, agentVars>>

(***************************************************************************)
(* Path strings.                                                           *)
(***************************************************************************)
Rel(segs) == [abs |-> FALSE, segs |-> segs]
Abs(segs) == [abs |-> TRUE, segs |-> segs]
EmptyStr == Rel(<<>>)

\* JavaScript truthiness of a path string: every string but "".
Truthy(p) == p.abs \/ p.segs # <<>>

\* s.split('/').filter(p => p)
Parts(p) == p.segs

\* parts.join('/')
JoinParts(parts) == Rel(parts)

\* `${a}/${b}`.replace(/\/+/g, '/') for a truthy a
SlashJoin(a, b) == [abs |-> a.abs, segs |-> a.segs \o b.segs]

PopLast(s) == IF s = <<>> THEN <<>> ELSE SubSeq(s, 1, Len(s) - 1)

\* path.resolve's normalisation of the segments below a base directory: "."
\* is not represented, ".." removes the segment before it; a ".." with nothing
\* before it is kept (it leaves the base directory).
RECURSIVE NormSegs(_, _)
NormSegs(done, todo) ==
    IF todo = <<>> THEN done
    ELSE IF Head(todo) = ".." /\ done # <<>> /\ done[Len(done)] # ".."
         THEN NormSegs(PopLast(done), Tail(todo))
         ELSE NormSegs(Append(done, Head(todo)), Tail(todo))

Normalize(segs) == NormSegs(<<>>, segs)

(***************************************************************************)
(* Texts.                                                                  *)
(***************************************************************************)
IsWhitespace(c) == c \in {" ", "\n", "\r", "\t"}

RECURSIVE TrimStart(_)
TrimStart(t) ==
    IF t # <<>> /\ IsWhitespace(Head(t)) THEN TrimStart(Tail(t)) ELSE t

RECURSIVE TrimEnd(_)
TrimEnd(t) ==
    IF t # <<>> /\ IsWhitespace(t[Len(t)]) THEN TrimEnd(PopLast(t)) ELSE t

\* String.prototype.trim
Trim(t) == TrimEnd(TrimStart(t))

\* String.prototype.includes
Includes(hay, needle) ==
    \E i \in 0..(Len(hay) - Len(needle)) : SubSeq(hay, i + 1, i + Len(needle)) = needle

\* Mutant: line endings are compared as they are.
NormalizeCRLF_Identity(t) == t

\* s.replace(/\r\n/g, '\n')
RECURSIVE NormalizeCRLF(_)
NormalizeCRLF(t) ==
    IF t = <<>> THEN <<>>
    ELSE IF Len(t) >= 2 /\ t[1] = "\r" /\ t[2] = "\n"
         THEN <<"\n">> \o NormalizeCRLF(SubSeq(t, 3, Len(t)))
         ELSE <<Head(t)>> \o NormalizeCRLF(Tail(t))

(***************************************************************************)
(* The operation model (dsl/index.ts): commands, steps, validations.       *)
(* A command text is kept as what the engine reads from it: whether it is  *)
(* a cd command (isCdCommand's regular expression) and, for a cd, the form *)
(* of its target: "bare" is `cd`, "probe" is a target `~`, `~/...` or      *)
(* `/...`, "rel" is a relative target given by its segments.               *)
(***************************************************************************)
Cmd(kind, form, target) == [kind |-> kind, form |-> form, target |-> target]
OtherCmd == Cmd("other", "none", <<>>)
CdBare == Cmd("cd", "bare", <<>>)
CdTilde == Cmd("cd", "probe", <<"~">>)
CdRel(target) == Cmd("cd", "rel", target)

NoCheck ==
    [exitCode |-> <<>>, contains |-> <<>>, containsError |-> <<>>, matches |-> <<>>,
     exists |-> <<>>, equals |-> <<>>]

NoValidation ==
    [type |-> "none", command |-> OtherCmd, workingDirectory |-> EmptyStr,
     path |-> EmptyStr, check |-> NoCheck]

NoChange == [type |-> "none", path |-> EmptyStr]

NoEnv == [v \in {} |-> ""]

StepBody(type) ==
    [type |-> type, command |-> OtherCmd, workingDirectory |-> EmptyStr, env |-> NoEnv,
     expectedExitCode |-> <<>>, captureOutput |-> <<>>, change |-> NoChange,
     validation |-> NoValidation]

RunStep(command, workingDirectory, expectedExitCode) ==
    [StepBody("run-command") EXCEPT !.command = command,
                                    !.workingDirectory = workingDirectory,
                                    !.expectedExitCode = expectedExitCode]

ChangeFileStep(type, path) ==
    [StepBody("change-file") EXCEPT !.change = [type |-> type, path |-> path]]

CliOutputStep(workingDirectory, check) ==
    [StepBody("validate") EXCEPT !.validation =
        [NoValidation EXCEPT !.type = "cli-output", !.workingDirectory = workingDirectory,
                             !.check = check]]

FileContentsStep(path, check) ==
    [StepBody("validate") EXCEPT !.validation =
        [NoValidation EXCEPT !.type = "file-contents", !.path = path, !.check = check]]

OtherValidationStep(type) ==
    [StepBody("validate") EXCEPT !.validation = [NoValidation EXCEPT !.type = type]]

\* A regular expression source: whether `new RegExp` accepts it, and the
\* literal text it matches (only literal patterns are modelled).
Pattern(valid, lit) == [valid |-> valid, lit |-> lit]

\* The relative cd targets of the model.
CdTargets ==
    { <<"..">>, <<"..", "..">>, <<"..", "x", "..", "y">>, <<"x">>, <<"x", "..">> }

\* The step bodies an operation list of the model is built from.
StepBodies ==
    { RunStep(OtherCmd, EmptyStr, <<>>),
      RunStep(OtherCmd, EmptyStr, <<1>>),
      [RunStep(OtherCmd, Rel(<<"w">>), <<0>>) EXCEPT !.env = [v \in {"K"} |-> "step"],
                                                   !.captureOutput = <<FALSE>>],
      RunStep(CdBare, EmptyStr, <<>>),
      RunStep(CdTilde, EmptyStr, <<>>),
      RunStep(CdRel(<<"..">>), Rel(<<"w">>), <<>>),
      RunStep(CdRel(<<"x">>), Abs(<<"w">>), <<>>) }
    \cup { RunStep(CdRel(t), EmptyStr, <<>>) : t \in CdTargets }
    \cup
    { ChangeFileStep("replace", Rel(<<"f">>)),
      ChangeFileStep("context", Rel(<<"f">>)),
      CliOutputStep(EmptyStr, [NoCheck EXCEPT !.exitCode = <<0>>]),
      CliOutputStep(Rel(<<"w">>),
                    [NoCheck EXCEPT !.exitCode = <<0>>,
                                    !.contains = << <<"o", "k">> >>,
                                    !.containsError = << <<"e">> >>,
                                    !.matches = << Pattern(TRUE, <<"o", "k">>) >>]),
      CliOutputStep(EmptyStr, [NoCheck EXCEPT !.exitCode = <<0>>,
                                              !.matches = << Pattern(FALSE, <<"(">>) >>]),
      FileContentsStep(Rel(<<"f">>), [NoCheck EXCEPT !.exists = <<TRUE>>,
                                                     !.contains = << <<"h">> >>]),
      FileContentsStep(Rel(<<"f">>), [NoCheck EXCEPT !.exists = <<FALSE>>]),
      FileContentsStep(Rel(<<"f">>), [NoCheck EXCEPT !.equals = << <<>> >>]),
      FileContentsStep(Rel(<<"f">>), [NoCheck EXCEPT !.exists = <<FALSE>>,
                                                     !.equals = << <<"h", "\n", "i">> >>]),
      FileContentsStep(Rel(<<"f">>),
                       [NoCheck EXCEPT !.equals = << <<"h", "\n", "i">> >>,
                                       !.contains = << <<"h", "\n", "i">> >>]),
      FileContentsStep(Rel(<<"f">>),
                       [NoCheck EXCEPT !.equals = << <<"h", "\r", "\n", "i">> >>]),
      FileContentsStep(Abs(<<"etc", "f">>),
                       [NoCheck EXCEPT !.matches = << Pattern(TRUE, <<"h", "\n", "i">>) >>]),
      OtherValidationStep("browser"),
      OtherValidationStep("unknown"),
      StepBody("unknown") }

\* The step at position k of a list: the caller-supplied id and ordinal.
StepId(k) == <<"step", k>>
StepNumber(k) == 10 * k
WithId(body, k) == [id |-> StepId(k), stepNumber |-> StepNumber(k)] @@ body

\* The operation lists of at most maxLen steps.
StepLists(maxLen) ==
    UNION { { [k \in 1..n |-> WithId(bodies[k], k)] : bodies \in [1..n -> StepBodies] }
            : n \in 0..maxLen }

Prerequisites(commands, envVars) == [commands |-> commands, envVars |-> envVars]

TutorialSpecs(maxLen) ==
    [ steps : StepLists(maxLen),
      prerequisites : { <<>>, << Prerequisites(<<"git">>, <<"HOME">>) >> },
      workingDirectory : { EmptyStr, Rel(<<"a", "b">>) },
      env : { [v \in {"K"} |-> "global"] } ]

(***************************************************************************)
(* What the sandbox can answer (the environment of the engine).            *)
(***************************************************************************)
ExceptionMessages == { "sandbox error" }

\* A CommandResult returned by sandbox.executeCommand.
CommandResult(exitCode, stdout, stderr) ==
    [threw |-> FALSE, msg |-> "", exitCode |-> exitCode, stdout |-> stdout, stderr |-> stderr]

\* sandbox.executeCommand rejecting.
Rejection(msg) ==
    [threw |-> TRUE, msg |-> msg, exitCode |-> 0, stdout |-> <<>>, stderr |-> <<>>]

CommandOutcomes ==
    { CommandResult(0, <<"o", "k", "\n">>, <<>>),
      CommandResult(0, <<>>, <<>>),
      CommandResult(1, <<>>, <<"e", "\n">>) }
    \cup { Rejection(m) : m \in ExceptionMessages }

\* The answer of the probe `<cd command> && pwd`: the directory printed is
\* the workspace root followed by segs (inside), or a directory outside it.
ProbeResult(exitCode, inside, segs) ==
    [threw |-> FALSE, msg |-> "", exitCode |-> exitCode, inside |-> inside, segs |-> segs]

ProbeRejection(msg) ==
    [threw |-> TRUE, msg |-> msg, exitCode |-> 0, inside |-> FALSE, segs |-> <<>>]

ProbeOutcomes ==
    { ProbeResult(0, FALSE, <<>>), ProbeResult(0, TRUE, <<>>), ProbeResult(0, TRUE, <<"a">>),
      ProbeResult(1, FALSE, <<>>) }
    \cup { ProbeRejection(m) : m \in ExceptionMessages }

isCdCommand(command) == command.kind = "cd"

\* Whether parseCdTarget sends the probe `<command> && pwd` to the sandbox.
NeedsProbe(command) == command.form \in {"bare", "probe"}

\* The answers the probe of a step can get: the probe is sent only after a
\* cd command that needs one has exited with 0.
ProbeAnswers(command, out) ==
    IF ~out.threw /\ out.exitCode = 0 /\ isCdCommand(command) /\ NeedsProbe(command)
    THEN ProbeOutcomes
    ELSE { ProbeResult(0, FALSE, <<>>) }

FileContents ==
    { <<"h", "\n", "i">>, <<"h", "\r", "\n", "i">>, <<"h", "o">> }

(***************************************************************************)
(* Step results (executor/index.ts, StepResult).                           *)
(***************************************************************************)
Err(kind, text, expected, actual) ==
    [kind |-> kind, text |-> text, expected |-> expected, actual |-> actual]

\* `Expected exit code ${expected}, got ${actual}`
ExitCodeError(expected, actual) == Err("Expected exit code", <<>>, expected, actual)
\* error.message || String(error)
ExceptionError(msg) == Err(msg, <<>>, 0, 0)
\* a message built around a text of the step
TextError(kind, text) == Err(kind, text, 0, 0)

NoOutput == [kind |-> "none", text |-> <<>>]
Output(kind, text) == [kind |-> kind, text |-> text]

StepResult(step, success, error, output) ==
    [stepId |-> step.id, stepNumber |-> step.stepNumber, success |-> success,
     error |-> error, output |-> output]

\* errors.join('; ') is kept as the list of the messages; undefined is <<>>.
Failure(step, errors, output) == StepResult(step, FALSE, errors, output)

\* The catch block of executeStep.
CatchResult(step, msg) == Failure(step, <<ExceptionError(msg)>>, NoOutput)

(***************************************************************************)
(* The sandbox calls the engine makes: a history of the Sandbox interface. *)
(* step is the position of the operation the call was made for (0: the     *)
(* prerequisite check), op the method and purpose, dir the workingDirectory*)
(* or path argument, threw/msg/exitCode what the sandbox answered, and     *)
(* stdout/stderr (executeCommand), contents (readFile) or exists           *)
(* (fileExists) when it answered with a value.                             *)
(***************************************************************************)
Call(step, op, dir, env, threw, msg, exitCode) ==
    [step |-> step, op |-> op, dir |-> dir, env |-> env, threw |-> threw, msg |-> msg,
     exitCode |-> exitCode, stdout |-> <<>>, stderr |-> <<>>, contents |-> <<>>,
     exists |-> FALSE]

\* The call, answered with the CommandResult out.
WithOutput(call, out) == [call EXCEPT !.stdout = out.stdout, !.stderr = out.stderr]

\* errors.join('; '): kept as the list of the messages joined.
JoinErrors_First(errors) == IF errors = <<>> THEN <<>> ELSE <<Head(errors)>>

JoinErrors(errors) == errors

(***************************************************************************)
(* Working-directory tracking.                                             *)
(***************************************************************************)
resolveWorkingDir(baseDir, relativeDir) ==
    IF ~Truthy(baseDir) THEN relativeDir
    ELSE IF ~Truthy(relativeDir) THEN baseDir
    ELSE IF relativeDir.abs THEN relativeDir
    ELSE SlashJoin(baseDir, relativeDir)

absoluteToRelative(probe) ==
    IF probe.inside THEN Rel(probe.segs) ELSE EmptyStr

\* target.split('../').length - 1: the occurrences of "../" in the target,
\* which are its ".." segments followed by another segment.
UpLevels(target) == Cardinality({ i \in 1..(Len(target) - 1) : target[i] = ".." })

\* target.replace(/\.\.\//g, '')
RECURSIVE Remaining(_)
Remaining(target) ==
    IF Len(target) <= 1 THEN target
    ELSE IF Head(target) = ".." THEN Remaining(Tail(target))
         ELSE <<Head(target)>> \o Remaining(Tail(target))

\* for (let i = 0; i < upLevels && parts.length > 0; i++) parts.pop()
RECURSIVE PopLevels(_, _)
PopLevels(parts, upLevels) ==
    IF upLevels = 0 \/ parts = <<>> THEN parts
    ELSE PopLevels(PopLast(parts), upLevels - 1)

\* Mutant: no special case for `..`, which is joined like a directory name.
parseCdRelative_NoDotDot(target, cwd) ==
    IF Len(target) > 1 /\ Head(target) = ".."
    THEN JoinParts(PopLevels(Parts(cwd), UpLevels(target)) \o Remaining(target))
    ELSE IF Truthy(cwd) THEN SlashJoin(cwd, Rel(target))
    ELSE Rel(target)

\* parseCdTarget for a relative target: no sandbox call.
parseCdRelative(target, cwd) ==
    IF target = <<"..">> THEN JoinParts(PopLast(Parts(cwd)))
    ELSE IF Len(target) > 1 /\ Head(target) = ".."
         THEN JoinParts(PopLevels(Parts(cwd), UpLevels(target)) \o Remaining(target))
    ELSE IF Truthy(cwd) THEN SlashJoin(cwd, Rel(target))
    ELSE Rel(target)

\* parseCdTarget: the new directory, <<>> for null. probe is the answer of
\* the probe, read only when NeedsProbe(command).
parseCdTarget(command, cwd, probe) ==
    IF command.form = "bare"
    THEN IF probe.exitCode = 0 THEN <<absoluteToRelative(probe)>> ELSE <<EmptyStr>>
    ELSE IF command.form = "probe"
    THEN IF probe.exitCode = 0 THEN <<absoluteToRelative(probe)>> ELSE <<>>
    ELSE <<parseCdRelative(command.target, cwd)>>

(***************************************************************************)
(* The dispatch of one operation. Each operator below gives the effect of  *)
(* one handler of the engine for the answers the sandbox gave: the sandbox *)
(* calls made, whether an exception left the handler (threw, msg), the new *)
(* currentWorkingDir and the StepResult the handler returns otherwise.     *)
(***************************************************************************)
Effect(newCalls, threw, msg, cwd, stepResult) ==
    [calls |-> newCalls, threw |-> threw, msg |-> msg, cwd |-> cwd, result |-> stepResult]

\* { ...globalEnv, ...(step.env || {}) }
MergeEnv(globalEnv, stepEnv) == stepEnv @@ globalEnv

\* Mutant: the tracked directory is not passed on.
EffectiveDir_Untracked(cwd, workingDirectory) == workingDirectory

\* step.workingDirectory ? resolveWorkingDir(cwd, step.workingDirectory) : cwd || undefined
EffectiveDir(cwd, workingDirectory) ==
    IF Truthy(workingDirectory) THEN resolveWorkingDir(cwd, workingDirectory) ELSE cwd

\* Mutant: the declared expectedExitCode is ignored.
ExpectedExitCode_AlwaysZero(step) == 0

\* step.expectedExitCode ?? 0
ExpectedExitCode(step) ==
    IF step.expectedExitCode = <<>> THEN 0 ELSE step.expectedExitCode[1]

RunResult(step, out) ==
    LET expectedExitCode == ExpectedExitCode(step)
        success == out.exitCode = expectedExitCode
    IN StepResult(step, success,
                  IF success THEN <<>>
                  ELSE <<ExitCodeError(expectedExitCode, out.exitCode)>>,
                  IF step.captureOutput # <<FALSE>>
                  THEN Output("captured", out.stdout \o out.stderr)
                  ELSE NoOutput)

\* Mutant: a cd command is tracked whatever its exit code.
executeRunCommandStep_TracksFailedCd(step, k, cwd, globalEnv, out, probe) ==
    LET workingDir == EffectiveDir(cwd, step.workingDirectory)
        env == MergeEnv(globalEnv, step.env)
        mainCall == WithOutput(Call(k, "executeCommand", workingDir, env, out.threw, out.msg,
                                    out.exitCode), out)
        newDir == parseCdTarget(step.command, workingDir, probe)
    IN Effect(<<mainCall>>, out.threw, out.msg,
              IF ~out.threw /\ isCdCommand(step.command) /\ newDir # <<>>
              THEN newDir[1] ELSE cwd,
              RunResult(step, out))

executeRunCommandStep(step, k, cwd, globalEnv, out, probe) ==
    LET workingDir == EffectiveDir(cwd, step.workingDirectory)
        env == MergeEnv(globalEnv, step.env)
        mainCall == WithOutput(Call(k, "executeCommand", workingDir, env, out.threw, out.msg,
                                    out.exitCode), out)
        probeCall == Call(k, "probe", workingDir, NoEnv, probe.threw, probe.msg, probe.exitCode)
        tracked == ~out.threw /\ out.exitCode = 0 /\ isCdCommand(step.command)
        probed == tracked /\ NeedsProbe(step.command)
        newDir == parseCdTarget(step.command, workingDir, probe)
    IN Effect(IF probed THEN <<mainCall, probeCall>> ELSE <<mainCall>>,
              out.threw \/ (probed /\ probe.threw),
              IF out.threw THEN out.msg ELSE probe.msg,
              IF tracked /\ ~(probed /\ probe.threw) /\ newDir # <<>> THEN newDir[1] ELSE cwd,
              RunResult(step, out))

executeChangeFileStep(step, k, cwd, applied) ==
    Effect(<<Call(k, "applyFileChange", step.change.path, NoEnv, applied.threw, applied.msg, 0)>>,
           applied.threw, applied.msg, cwd,
           StepResult(step, TRUE, <<>>, Output("Applied", <<step.change.type>>)))

\* A string option that is set and not the empty string.
TruthyText(opt) == opt # <<>> /\ opt[1] # <<>>

\* The source of a regular expression that is set and not the empty string.
TruthyPattern(opt) == opt # <<>> /\ opt[1].lit # <<>>

validateCliOutput(step, k, cwd, globalEnv, out) ==
    LET validation == step.validation
        check == validation.check
        workingDir == EffectiveDir(cwd, validation.workingDirectory)
        call == WithOutput(Call(k, "executeCommand", workingDir, globalEnv, out.threw,
                                out.msg, out.exitCode), out)
        exitErrors ==
            IF check.exitCode # <<>> /\ out.exitCode # check.exitCode[1]
            THEN <<ExitCodeError(check.exitCode[1], out.exitCode)>> ELSE <<>>
        containsErrors ==
            IF TruthyText(check.contains) /\ ~Includes(out.stdout, check.contains[1])
            THEN <<TextError("Expected stdout to contain", check.contains[1])>> ELSE <<>>
        containsErrorErrors ==
            IF TruthyText(check.containsError)
               /\ ~Includes(out.stderr, check.containsError[1])
            THEN <<TextError("Expected stderr to contain", check.containsError[1])>>
            ELSE <<>>
        badRegex == check.matches # <<>> /\ ~check.matches[1].valid
        combinedOutput == Trim(out.stdout \o out.stderr)
        matchesErrors ==
            IF check.matches # <<>> /\ ~Includes(combinedOutput, check.matches[1].lit)
            THEN <<TextError("Output did not match pattern", check.matches[1].lit)>>
            ELSE <<>>
        errors == exitErrors \o containsErrors \o containsErrorErrors \o matchesErrors
    IN Effect(<<call>>,
              out.threw \/ badRegex,
              IF out.threw THEN out.msg ELSE "Invalid regular expression",
              cwd,
              StepResult(step, errors = <<>>, JoinErrors(errors),
                         Output("cli", out.stdout \o
                                (IF out.stderr # <<>> THEN <<"\n[stderr]\n">> \o out.stderr
                                 ELSE <<>>))))

\* Mutant: the existence requirement is not checked.
ExistenceFailure_Never(check, exists) == <<>>

\* Lines 357-374: the message the existence requirement fails with, if it
\* is configured and fails.
ExistenceFailure(check, exists) ==
    IF check.exists # <<>> /\ check.exists[1] /\ ~exists
    THEN <<"File does not exist">>
    ELSE IF check.exists # <<>> /\ ~check.exists[1] /\ exists
    THEN <<"File should not exist">>
    ELSE <<>>

\* exists: the answer of sandbox.fileExists; read: the answer of
\* sandbox.readFile, asked only when the file exists.
validateFileContents(step, k, cwd, exists, read) ==
    LET validation == step.validation
        check == validation.check
        filePath == resolveWorkingDir(cwd, validation.path)
        existsCall == [Call(k, "fileExists", filePath, NoEnv, FALSE, "", 0)
                          EXCEPT !.exists = exists]
        readCall == [Call(k, "readFile", filePath, NoEnv, read.threw, read.msg, 0)
                        EXCEPT !.contents = read.contents]
        contents == read.contents
        containsErrors ==
            IF TruthyText(check.contains) /\ ~Includes(contents, check.contains[1])
            THEN <<TextError("File does not contain", check.contains[1])>> ELSE <<>>
        equalsErrors ==
            IF check.equals # <<>>
               /\ NormalizeCRLF(contents) # NormalizeCRLF(check.equals[1])
            THEN <<TextError("File contents do not match exactly", <<>>)>> ELSE <<>>
        badRegex == check.matches # <<>> /\ ~check.matches[1].valid
        matchesErrors ==
            IF check.matches # <<>> /\ ~Includes(contents, check.matches[1].lit)
            THEN <<TextError("File contents do not match pattern", check.matches[1].lit)>>
            ELSE <<>>
        errors == containsErrors \o equalsErrors \o matchesErrors
        missing == Failure(step, <<TextError("File does not exist", <<>>)>>, NoOutput)
        existence == ExistenceFailure(check, exists)
    IN IF existence # <<>>
       THEN Effect(<<existsCall>>, FALSE, "", cwd,
                   Failure(step, <<TextError(existence[1], <<>>)>>, NoOutput))
       ELSE IF ~exists /\ (TruthyText(check.contains) \/ TruthyPattern(check.matches)
                           \/ TruthyText(check.equals))
       THEN Effect(<<existsCall>>, FALSE, "", cwd, missing)
       ELSE IF ~exists
       THEN Effect(<<existsCall>>, FALSE, "", cwd,
                   StepResult(step, TRUE, <<>>, Output("File existence check passed", <<>>)))
       ELSE Effect(<<existsCall, readCall>>,
                   read.threw \/ badRegex,
                   IF read.threw THEN read.msg ELSE "Invalid regular expression",
                   cwd,
                   StepResult(step, errors = <<>>, JoinErrors(errors),
                              IF errors = <<>> THEN Output("File validation passed", <<>>)
                              ELSE Output("contents", contents)))

\* Mutant: a validation that is not implemented passes.
executeValidateOther_Passes(step, cwd) ==
    Effect(<<>>, FALSE, "", cwd, StepResult(step, TRUE, <<>>, NoOutput))

\* The validation types executeValidateStep does not dispatch to the sandbox.
executeValidateOther(step, cwd) ==
    Effect(<<>>, FALSE, "", cwd,
           Failure(step,
                   IF step.validation.type = "browser"
                   THEN <<TextError("Browser validation not yet implemented", <<>>)>>
                   ELSE <<TextError("Unknown validation type", <<step.validation.type>>)>>,
                   NoOutput))

executeUnknownStep(step, cwd) ==
    Effect(<<>>, FALSE, "", cwd,
           Failure(step, <<TextError("Unknown step type", <<step.type>>)>>, NoOutput))

\* Mutant: the exception is swallowed and the handler's result reported.
executeStep_Swallow(step, effect) == effect.result

\* executeStep: the try/catch around the dispatch turns an exception into a
\* failed step result.
executeStep(step, effect) ==
    IF effect.threw THEN CatchResult(step, effect.msg) ELSE effect.result

(***************************************************************************)
(* TutorialExecutor.execute.                                               *)
(***************************************************************************)
\* Mutant: `some` in place of `every`.
AllSuccessful_Some(results) == results = <<>> \/ \E i \in 1..Len(results) : results[i].success

AllSuccessful(results) == \A i \in 1..Len(results) : results[i].success

ExecutionResult(results, success) == [stepResults |-> results, success |-> success]

\* Mutant: the loop without its `break`.
LoopContinues_NoBreak(results) == TRUE

\* The for loop of execute() goes on to the next step: `break` on the first
\* failed result.
LoopContinues(results) ==
    IF results = <<>> THEN TRUE ELSE results[Len(results)].success

LoopRuns(steps, results) == Len(results) < Len(steps) /\ LoopContinues(results)

\* Mutant: the error is attributed to the last step of the list.
CatchExecute_LastStep(steps, results, error) ==
    IF Len(results) < Len(steps)
    THEN Append(results, Failure(steps[Len(steps)], <<error>>, NoOutput))
    ELSE results

\* The catch block of execute(): the error is attributed to the step at
\* index stepResults.length, if the list has one.
CatchExecute(steps, results, error) ==
    LET failedStepIndex == Len(results)
    IN IF failedStepIndex < Len(steps)
       THEN Append(results, Failure(steps[failedStepIndex + 1], <<error>>, NoOutput))
       ELSE results

\* execute() returns through its catch block.
ReturnCaught(error) ==
    LET results == CatchExecute(spec.steps, stepResults, error)
    IN /\ stepResults' = results
       /\ result' = <<ExecutionResult(results, FALSE)>>
       /\ pc' = "done"

\* After a push (or with no step at all): the loop goes on, or execute()
\* returns the results.
LoopOrReturn(results) ==
    /\ stepResults' = results
    /\ IF LoopRuns(spec.steps, results)
       THEN pc' = "steps" /\ result' = <<>>
       ELSE /\ pc' = "done"
            /\ result' = <<ExecutionResult(results, AllSuccessful(results))>>

\* Line 73 of execute(): sandbox.initialize() creates the workspace (and the
\* container), or rejects.
Initialize ==
    /\ pc = "initialize"
    /\ \E outcome \in {"ok"} \cup ExceptionMessages :
         IF outcome = "ok"
         THEN /\ calls' = Append(calls, Call(0, "initialize", EmptyStr, NoEnv, FALSE, "", 0))
              /\ pc' = "prerequisites"
              /\ UNCHANGED <<stepResults, result>>
         ELSE /\ calls' = Append(calls, Call(0, "initialize", EmptyStr, NoEnv, TRUE, outcome, 0))
              /\ ReturnCaught(ExceptionError(outcome))
    /\ UNCHANGED <<spec, currentWorkingDir, sandboxVars, editVars, teardownVars, agentVars>>

Min(S) == CHOOSE x \in S : \A y \in S : x <= y

\* checkPrerequisites: outs are the answers of the sandbox to the probes of
\* the required commands, present says which required variables are set.
checkPrerequisites(prerequisites, outs, present) ==
    LET commands == prerequisites.commands
        envVars == prerequisites.envVars
        call(i) == Call(0, "executeCommand", EmptyStr, NoEnv, outs[i].threw, outs[i].msg,
                       outs[i].exitCode)
        failed == { i \in 1..Len(commands) : outs[i].threw \/ outs[i].exitCode # 0 }
        unset == { i \in 1..Len(envVars) : ~present[i] }
    IN IF failed # {}
       THEN [calls |-> [i \in 1..Min(failed) |-> call(i)], threw |-> TRUE,
             error |-> IF outs[Min(failed)].threw
                       THEN ExceptionError(outs[Min(failed)].msg)
                       ELSE TextError("Prerequisite command not found",
                                      <<commands[Min(failed)]>>)]
       ELSE IF unset # {}
       THEN [calls |-> [i \in 1..Len(commands) |-> call(i)], threw |-> TRUE,
             error |-> TextError("Required environment variable not set",
                                 <<envVars[Min(unset)]>>)]
       ELSE [calls |-> [i \in 1..Len(commands) |-> call(i)], threw |-> FALSE,
             error |-> ExceptionError("")]

\* Lines 76-85 of execute(): the prerequisite check, then the working
\* directory is set from the spec.
CheckPrerequisites ==
    /\ pc = "prerequisites"
    /\ IF spec.prerequisites = <<>>
       THEN /\ currentWorkingDir' = spec.workingDirectory
            /\ LoopOrReturn(stepResults)
            /\ UNCHANGED calls
       ELSE \E outs \in [1..Len(spec.prerequisites[1].commands) -> CommandOutcomes],
               present \in [1..Len(spec.prerequisites[1].envVars) -> BOOLEAN] :
              LET checked == checkPrerequisites(spec.prerequisites[1], outs, present)
              IN /\ calls' = calls \o checked.calls
                 /\ IF checked.threw
                    THEN ReturnCaught(checked.error) /\ UNCHANGED currentWorkingDir
                    ELSE /\ currentWorkingDir' = spec.workingDirectory
                         /\ LoopOrReturn(stepResults)
    /\ UNCHANGED <<spec, sandboxVars, editVars, teardownVars, agentVars>>

StepReady == pc = "steps" /\ LoopRuns(spec.steps, stepResults)
CurIndex == Len(stepResults) + 1
CurStep == spec.steps[CurIndex]

\* One iteration of the loop: the step's result is pushed.
Dispatch(step, effect) ==
    /\ calls' = calls \o effect.calls
    /\ currentWorkingDir' = effect.cwd
    /\ LoopOrReturn(Append(stepResults, executeStep(step, effect)))
    /\ UNCHANGED <<spec, sandboxVars, editVars, teardownVars, agentVars>>

ExecuteRunCommandStep ==
    /\ StepReady
    /\ CurStep.type = "run-command"
    /\ \E out \in CommandOutcomes :
       \E probe \in ProbeAnswers(CurStep.command, out) :
         Dispatch(CurStep, executeRunCommandStep(CurStep, CurIndex, currentWorkingDir,
                                                 spec.env, out, probe))

ApplyOutcomes ==
    { [threw |-> FALSE, msg |-> ""] }
    \cup { [threw |-> TRUE, msg |-> m] : m \in ExceptionMessages \cup {"Search pattern not found"} }

ExecuteChangeFileStep ==
    /\ StepReady
    /\ CurStep.type = "change-file"
    /\ \E applied \in ApplyOutcomes :
         Dispatch(CurStep, executeChangeFileStep(CurStep, CurIndex, currentWorkingDir, applied))

ValidateCliOutput ==
    /\ StepReady
    /\ CurStep.type = "validate"
    /\ CurStep.validation.type = "cli-output"
    /\ \E out \in CommandOutcomes :
         Dispatch(CurStep, validateCliOutput(CurStep, CurIndex, currentWorkingDir,
                                             spec.env, out))

ReadOutcomes ==
    { [threw |-> FALSE, msg |-> "", contents |-> c] : c \in FileContents }
    \cup { [threw |-> TRUE, msg |-> m, contents |-> <<>>] : m \in ExceptionMessages }

ValidateFileContents ==
    /\ StepReady
    /\ CurStep.type = "validate"
    /\ CurStep.validation.type = "file-contents"
    /\ \E exists \in BOOLEAN, read \in ReadOutcomes :
         Dispatch(CurStep, validateFileContents(CurStep, CurIndex, currentWorkingDir,
                                                exists, read))

ExecuteValidateOther ==
    /\ StepReady
    /\ CurStep.type = "validate"
    /\ CurStep.validation.type \notin {"cli-output", "file-contents"}
    /\ Dispatch(CurStep, executeValidateOther(CurStep, currentWorkingDir))

ExecuteUnknownStep ==
    /\ StepReady
    /\ CurStep.type \notin {"run-command", "change-file", "validate"}
    /\ Dispatch(CurStep, executeUnknownStep(CurStep, currentWorkingDir))

\* No command is being executed by a sandbox of its own.
SandboxIdle ==
    /\ frames = <<>>
    /\ processExitCode = 0
    /\ commandDir = EmptyStr
    /\ chunks = <<>>
    /\ stdoutChunks = <<>>
    /\ stderrChunks = <<>>
    /\ dockerResult = <<>>
    /\ localResult = <<>>

\* No file change is being applied.
EditIdle ==
    /\ file = <<>>
    /\ jsonPath = FALSE
    /\ fileChange = <<>>
    /\ editResult = <<>>

\* No sandbox is being torn down.
TeardownIdle ==
    /\ driver = "none"
    /\ backend = "local"
    /\ dpc = <<>>
    /\ executed = ""
    /\ keepArg = <<>>
    /\ keepWorkspace = FALSE
    /\ cpc = "idle"
    /\ container = FALSE
    /\ containerState = "gone"
    /\ backgroundProcesses = <<>>
    /\ procIndex = 0
    /\ alive = {}
    /\ workspaceExists = FALSE
    /\ teardown = <<>>
    /\ exitStatus = <<>>

\* The validator's main is not running.
AgentIdle ==
    /\ maxIters = 0
    /\ outFile = FALSE
    /\ debugFiles = FALSE
    /\ iter = 0
    /\ apc = "none"
    /\ priorFailures = <<>>
    /\ attempts = <<>>
    /\ agentExit = <<>>

\* The state after `new TutorialExecutor(spec, sandbox)`, execute() called.
Init ==
    /\ AgentIdle
    /\ spec \in TutorialSpecs(MaxSteps)
    /\ pc = "initialize"
    /\ currentWorkingDir = spec.workingDirectory
    /\ stepResults = <<>>
    /\ result = <<>>
    /\ calls = <<>>
    /\ SandboxIdle
    /\ EditIdle
    /\ TeardownIdle

Next ==
    \/ Initialize
    \/ CheckPrerequisites
    \/ ExecuteRunCommandStep
    \/ ExecuteChangeFileStep
    \/ ValidateCliOutput
    \/ ValidateFileContents
    \/ ExecuteValidateOther
    \/ ExecuteUnknownStep

Spec == Init /\ [][Next]_vars

(***************************************************************************)
(* Properties of the execution engine.                                     *)
(***************************************************************************)
Failed(k) == k \in 1..Len(stepResults) /\ ~stepResults[k].success

SomeFailed == \E k \in 1..Len(stepResults) : ~stepResults[k].success

\* The calls that dispatch an operation to the sandbox (the probe of a cd
\* and the read after fileExists follow the dispatching call).
DispatchOps == {"executeCommand", "applyFileChange", "fileExists"}

DispatchCalls(k) ==
    { i \in 1..Len(calls) : calls[i].step = k /\ calls[i].op \in DispatchOps }

IsPrefix(s, t) == Len(s) <= Len(t) /\ SubSeq(t, 1, Len(s)) = s

\* C1: once a step result has success=false, no later operation is dispatched
\* to the sandbox and the failed one is not dispatched again; the failed
\* result is the last element of stepResults (its length is the position of
\* the failing operation), execute() has returned and overall success is false.
HaltedAtFirstFailure ==
    \A k \in 1..Len(stepResults) :
        ~stepResults[k].success =>
            /\ k = Len(stepResults)
            /\ \A i \in 1..Len(calls) : calls[i].step <= k
            /\ Cardinality(DispatchCalls(k)) <= 1
            /\ pc = "done"
            /\ result = <<ExecutionResult(stepResults, FALSE)>>

C1_FirstFailureHalts ==
    /\ []HaltedAtFirstFailure
    /\ [][SomeFailed => (calls' = calls /\ stepResults' = stepResults)]_vars

\* C1 witness: the first of two operations was dispatched and failed; the
\* second was never dispatched.
C1_Witness ==
    /\ Len(spec.steps) = 2
    /\ Len(stepResults) = 1
    /\ ~stepResults[1].success
    /\ DispatchCalls(1) # {}
    /\ DispatchCalls(2) = {}
    /\ pc = "done"

\* C2: stepResults holds the results of a prefix of the operation list in
\* list order, with the id and stepNumber of the operations; every result but
\* the last is successful; an operation is dispatched only after all earlier
\* ones have a successful result; the returned result holds these results, and
\* a result once recorded is never dropped or altered.
ResultsArePrefix ==
    /\ Len(stepResults) <= Len(spec.steps)
    /\ \A k \in 1..Len(stepResults) :
          /\ stepResults[k].stepId = spec.steps[k].id
          /\ stepResults[k].stepNumber = spec.steps[k].stepNumber
          /\ k < Len(stepResults) => stepResults[k].success
    /\ \A i \in 1..Len(calls) :
          \A j \in 1..(calls[i].step - 1) :
              j <= Len(stepResults) /\ stepResults[j].success
    /\ result # <<>> => result[1].stepResults = stepResults

C2_ResultsArePrefix ==
    /\ []ResultsArePrefix
    /\ [][IsPrefix(stepResults, stepResults')]_vars

\* C2 witness: two operations were dispatched in order, the first succeeded
\* and the second failed; both results are returned.
C2_Witness ==
    /\ Len(stepResults) = 2
    /\ stepResults[1].success
    /\ ~stepResults[2].success
    /\ DispatchCalls(1) # {} /\ DispatchCalls(2) # {}
    /\ result # <<>>

\* No step result of rs has success=false.
NoneFailed(rs) == { i \in 1..Len(rs) : ~rs[i].success } = {}

ExceptionsBecomeStepResults ==
    /\ \A i \in 1..Len(calls) :
          (calls[i].step >= 1 /\ calls[i].threw) =>
              LET k == calls[i].step
              IN /\ Len(stepResults) = k
                 /\ stepResults[k] = Failure(spec.steps[k], <<ExceptionError(calls[i].msg)>>,
                                             NoOutput)
                 /\ result = <<ExecutionResult(stepResults, FALSE)>>
    /\ \A k \in 1..Len(stepResults) :
          LET v == spec.steps[k].validation
          IN (/\ spec.steps[k].type = "validate"
              /\ v.type = "cli-output"
              /\ v.check.matches # <<>>
              /\ ~v.check.matches[1].valid
              /\ \A i \in DispatchCalls(k) : ~calls[i].threw
              /\ DispatchCalls(k) # {}) =>
                 /\ stepResults[k] =
                       Failure(spec.steps[k],
                               <<ExceptionError("Invalid regular expression")>>, NoOutput)
                 /\ result = <<ExecutionResult(stepResults, FALSE)>>

C4_ExceptionsBecomeStepResults ==
    /\ []ExceptionsBecomeStepResults
    /\ [][IsPrefix(stepResults, stepResults')]_vars

\* C4 witness: the second operation's sandbox call rejected; execute() has
\* returned both results, the first one successful.
C4_Witness ==
    /\ Len(stepResults) = 2
    /\ stepResults[1].success
    /\ \E i \in 1..Len(calls) : calls[i].step = 2 /\ calls[i].threw
    /\ result # <<>>

\* The call that dispatched operation k (run, edit and sandbox checks).
MainCall(k) == calls[CHOOSE i \in DispatchCalls(k) : TRUE]

StepCalls(k) == { i \in 1..Len(calls) : calls[i].step = k }

DeclaredExitCode(step) ==
    IF step.expectedExitCode = <<>> THEN 0 ELSE step.expectedExitCode[1]

RunSteps == { k \in 1..Len(stepResults) :
                 spec.steps[k].type = "run-command" /\ DispatchCalls(k) # {} }

\* C5 as stated: a Run step whose command returned an exit code succeeds if
\* and only if that exit code equals expectedExitCode (0 when absent), and
\* otherwise fails with the error naming the expected and the actual code.
C5_RunSuccessIffExitCode ==
    \A k \in RunSteps :
        ~MainCall(k).threw =>
            LET expected == DeclaredExitCode(spec.steps[k])
                actual == MainCall(k).exitCode
            IN /\ stepResults[k].success <=> (actual = expected)
               /\ stepResults[k].error =
                     IF actual = expected THEN <<>>
                     ELSE <<ExitCodeError(expected, actual)>>

\* C5, amended: the same, for a Run step none of whose sandbox calls (the
\* command, and the probe of a cd that needs one) rejected; when one of them
\* rejects, the step fails with the exception's message.
C5_RunSuccessIffExitCodeUnlessThrown ==
    \A k \in RunSteps :
        LET expected == DeclaredExitCode(spec.steps[k])
            actual == MainCall(k).exitCode
        IN IF \A i \in StepCalls(k) : ~calls[i].threw
           THEN /\ stepResults[k].success <=> (actual = expected)
                /\ stepResults[k].error =
                      IF actual = expected THEN <<>>
                      ELSE <<ExitCodeError(expected, actual)>>
           ELSE /\ ~stepResults[k].success
                /\ \E i \in StepCalls(k) :
                      /\ calls[i].threw
                      /\ stepResults[k].error = <<ExceptionError(calls[i].msg)>>

\* C5 witness: a Run step that declares expectedExitCode 1 got exit code 1
\* from the sandbox and succeeded.
C5_Witness ==
    \E k \in RunSteps :
        /\ spec.steps[k].expectedExitCode = <<1>>
        /\ ~MainCall(k).threw
        /\ MainCall(k).exitCode = 1
        /\ stepResults[k].success

(***************************************************************************)
(* Working-directory tracking against a shell.                             *)
(***************************************************************************)
SameDir(p, q) == p.abs = q.abs /\ Normalize(p.segs) = Normalize(q.segs)

\* A step that is a cd command whose command exited with 0: the engine
\* recomputes the working directory after it.
ChangesDir(k) ==
    /\ spec.steps[k].type = "run-command"
    /\ isCdCommand(spec.steps[k].command)
    /\ DispatchCalls(k) # {}
    /\ ~MainCall(k).threw
    /\ MainCall(k).exitCode = 0

\* Step j is a successful `cd D`, D a plain directory name.
PlainCd(j) ==
    /\ ChangesDir(j)
    /\ stepResults[j].success
    /\ spec.steps[j].command.form = "rel"
    /\ Len(spec.steps[j].command.target) = 1
    /\ spec.steps[j].command.target[1] # ".."

\* The directory a shell is in after `cd D` issued in directory dir.
AfterPlainCd(dir, target) == [abs |-> dir.abs, segs |-> dir.segs \o target]

\* C6: after a successful `cd D` (D a plain directory name) issued in
\* directory E, every later Run step and CommandOutput check without a
\* working-directory override is executed by the sandbox in E/D, and every
\* later FileState check resolves its relative path against E/D, until
\* another cd step changes the directory.
C6_CdPersistsAcrossSteps ==
    \A j \in 1..Len(stepResults) : \A m \in 1..Len(stepResults) :
        (/\ j < m
         /\ PlainCd(j)
         /\ DispatchCalls(m) # {}
         /\ \A l \in (j + 1)..(m - 1) : ~ChangesDir(l)) =>
            LET reached == AfterPlainCd(MainCall(j).dir, spec.steps[j].command.target)
                step == spec.steps[m]
            IN /\ (step.type = "run-command" /\ ~Truthy(step.workingDirectory))
                     => SameDir(MainCall(m).dir, reached)
               /\ (/\ step.type = "validate"
                   /\ step.validation.type = "cli-output"
                   /\ ~Truthy(step.validation.workingDirectory))
                     => SameDir(MainCall(m).dir, reached)
               /\ (/\ step.type = "validate"
                   /\ step.validation.type = "file-contents"
                   /\ ~step.validation.path.abs)
                     => SameDir(MainCall(m).dir,
                                AfterPlainCd(reached, step.validation.path.segs))

\* C6 witness: `cd x` succeeded from a/b and the next step, a FileState check
\* of the relative path f, asked the sandbox about a/b/x/f.
C6_Witness ==
    /\ Len(stepResults) = 2
    /\ PlainCd(1)
    /\ spec.workingDirectory = Rel(<<"a", "b">>)
    /\ spec.steps[2].type = "validate"
    /\ spec.steps[2].validation.type = "file-contents"
    /\ DispatchCalls(2) # {}
    /\ MainCall(2).dir = Rel(<<"a", "b", "x", "f">>)

\* In a step of execute(): operation k has just been dispatched and its
\* result pushed.
JustDispatched(k) ==
    /\ pc = "steps"
    /\ Len(stepResults') = Len(stepResults) + 1
    /\ k = Len(stepResults')

NewCalls == SubSeq(calls', Len(calls) + 1, Len(calls'))

\* Operation k, just dispatched, is a successful Run step `cd <target>`
\* whose command exited with 0.
JustRanCd(k, target) ==
    /\ JustDispatched(k)
    /\ spec.steps[k].type = "run-command"
    /\ spec.steps[k].command = CdRel(target)
    /\ stepResults'[k].success
    /\ ~NewCalls[1].threw
    /\ NewCalls[1].exitCode = 0

NoProbeSent == \A i \in 1..Len(NewCalls) : NewCalls[i].op # "probe"

\* C7 as stated: a successful Run step `cd ..` issued while the logical
\* working directory has n >= 1 segments sets the logical working directory
\* to its first n-1 segments, and sends no probe to the sandbox.
C7_CdUpPopsLogicalDir ==
    [][\A k \in 1..Len(spec.steps) :
          (JustRanCd(k, <<"..">>) /\ Len(Parts(currentWorkingDir)) >= 1) =>
              /\ currentWorkingDir' = Rel(PopLast(Parts(currentWorkingDir)))
              /\ NoProbeSent]_vars

\* C7, amended: the segments popped are those of the directory the step is
\* executed in: the logical working directory or, for a step with a
\* workingDirectory override, the override resolved against it.
C7_CdUpPopsEffectiveDir ==
    [][\A k \in 1..Len(spec.steps) :
          (JustRanCd(k, <<"..">>) /\ Len(Parts(NewCalls[1].dir)) >= 1) =>
              /\ NewCalls[1].dir =
                    EffectiveDir(currentWorkingDir, spec.steps[k].workingDirectory)
              /\ currentWorkingDir' = Rel(PopLast(Parts(NewCalls[1].dir)))
              /\ NoProbeSent]_vars

\* C7 witness: `cd ..` succeeded from a/b and the logical directory is a.
C7_Witness ==
    /\ Len(stepResults) = 1
    /\ spec.workingDirectory = Rel(<<"a", "b">>)
    /\ spec.steps[1] = WithId(RunStep(CdRel(<<"..">>), EmptyStr, <<>>), 1)
    /\ stepResults[1].success
    /\ currentWorkingDir = Rel(<<"a">>)
    /\ \A i \in 1..Len(calls) : calls[i].op # "probe"

\* The directory a shell reaches by resolving a relative target segment by
\* segment from dir (segments below the workspace root).
RECURSIVE ShellResolve(_, _)
ShellResolve(dir, target) ==
    IF target = <<>> THEN dir
    ELSE IF Head(target) = ".." THEN ShellResolve(PopLast(dir), Tail(target))
         ELSE ShellResolve(Append(dir, Head(target)), Tail(target))

\* The resolution never goes above the workspace root.
RECURSIVE StaysInside(_, _)
StaysInside(dir, target) ==
    IF target = <<>> THEN TRUE
    ELSE IF Head(target) = ".."
         THEN dir # <<>> /\ StaysInside(PopLast(dir), Tail(target))
         ELSE StaysInside(Append(dir, Head(target)), Tail(target))

InsideWorkspace(p) == ~p.abs /\ \A i \in 1..Len(Normalize(p.segs)) : Normalize(p.segs)[i] # ".."

\* C8: after a successful `cd T`, T a relative target of ".." segments and
\* directory names whose resolution stays inside the workspace, the new
\* logical working directory denotes the directory a shell reaches by
\* resolving T segment by segment against the previous logical working
\* directory.
C8_CdMatchesShell ==
    [][\A k \in 1..Len(spec.steps) : \A t \in CdTargets :
          (/\ JustRanCd(k, t)
           /\ ~Truthy(spec.steps[k].workingDirectory)
           /\ InsideWorkspace(currentWorkingDir)
           /\ StaysInside(Normalize(currentWorkingDir.segs), t)) =>
              /\ ~currentWorkingDir'.abs
              /\ Normalize(currentWorkingDir'.segs) =
                    ShellResolve(Normalize(currentWorkingDir.segs), t)]_vars

\* The CommandOutput checks that were run and whose command the sandbox
\* answered.
CliChecks ==
    { k \in 1..Len(stepResults) :
        /\ spec.steps[k].type = "validate"
        /\ spec.steps[k].validation.type = "cli-output"
        /\ DispatchCalls(k) # {}
        /\ ~MainCall(k).threw }

\* The messages of the configured predicates of check k that do not hold of
\* the command's answer; the pattern is matched against the trimmed
\* concatenation of stdout and stderr.
FailingPredicates(k) ==
    LET check == spec.steps[k].validation.check
        answer == MainCall(k)
    IN { ExitCodeError(check.exitCode[i], answer.exitCode) :
            i \in { j \in DOMAIN check.exitCode : answer.exitCode # check.exitCode[j] } }
       \cup { TextError("Expected stdout to contain", check.contains[i]) :
                i \in { j \in DOMAIN check.contains :
                          ~Includes(answer.stdout, check.contains[j]) } }
       \cup { TextError("Expected stderr to contain", check.containsError[i]) :
                i \in { j \in DOMAIN check.containsError :
                          ~Includes(answer.stderr, check.containsError[j]) } }
       \cup { TextError("Output did not match pattern", check.matches[i].lit) :
                i \in { j \in DOMAIN check.matches :
                          ~(/\ check.matches[j].valid
                            /\ Includes(Trim(answer.stdout \o answer.stderr),
                                        check.matches[j].lit)) } }

ReportsEveryFailure(k) ==
    /\ stepResults[k].success <=> FailingPredicates(k) = {}
    /\ \A m \in FailingPredicates(k) :
          \E i \in 1..Len(stepResults[k].error) : stepResults[k].error[i] = m

ValidPattern(k) ==
    \A j \in DOMAIN spec.steps[k].validation.check.matches :
        spec.steps[k].validation.check.matches[j].valid

\* C11 as stated: a CommandOutput check succeeds if and only if every
\* configured predicate holds, and when predicates fail the error text holds
\* the message of each failing predicate.
C11_CliCheckReportsEveryFailure ==
    \A k \in CliChecks : ReportsEveryFailure(k)

\* C11, amended: the same for the checks whose `matches` pattern, if any, is
\* a valid regular expression; with an invalid pattern the check fails with
\* the exception's message alone.
C11_CliCheckReportsEveryFailureOfValidChecks ==
    \A k \in CliChecks :
        IF ValidPattern(k) THEN ReportsEveryFailure(k)
        ELSE /\ ~stepResults[k].success
             /\ stepResults[k].error = <<ExceptionError("Invalid regular expression")>>

\* C11 witness: a check with four predicates ran; three of them failed and
\* the error holds the three messages.
C11_Witness ==
    \E k \in CliChecks :
        /\ ValidPattern(k)
        /\ Cardinality(FailingPredicates(k)) = 3
        /\ Len(stepResults[k].error) = 3

\* The FileState checks that were run.
FileChecks ==
    { k \in 1..Len(stepResults) :
        /\ spec.steps[k].type = "validate"
        /\ spec.steps[k].validation.type = "file-contents"
        /\ DispatchCalls(k) # {} }

\* What sandbox.fileExists answered for check k.
FilePresent(k) == MainCall(k).exists

ReadCalls(k) == { i \in 1..Len(calls) : calls[i].step = k /\ calls[i].op = "readFile" }

ExistenceMessages == { "File does not exist", "File should not exist" }

\* C12: a FileState check whose exists requirement is contradicted by the
\* file system fails with the existence message alone and never reads the
\* file; no check reads a file that does not exist.
C12_ExistenceShortCircuits ==
    \A k \in FileChecks :
        LET check == spec.steps[k].validation.check
        IN /\ (check.exists # <<>> /\ check.exists[1] # FilePresent(k)) =>
                /\ ~stepResults[k].success
                /\ Len(stepResults[k].error) = 1
                /\ stepResults[k].error[1].kind =
                      (IF check.exists[1] THEN "File does not exist"
                       ELSE "File should not exist")
                /\ ReadCalls(k) = {}
           /\ ~FilePresent(k) => ReadCalls(k) = {}
           /\ ReadCalls(k) = {} =>
                \A i \in 1..Len(stepResults[k].error) :
                    stepResults[k].error[i].kind \in ExistenceMessages

\* C12 witness: a check with exists=false and an equals predicate found the
\* file present and failed without reading it.
C12_Witness ==
    \E k \in FileChecks :
        /\ spec.steps[k].validation.check.exists = <<FALSE>>
        /\ spec.steps[k].validation.check.equals # <<>>
        /\ FilePresent(k)
        /\ ~stepResults[k].success
        /\ ReadCalls(k) = {}

\* The pieces of a text between its "\n" characters.
RECURSIVE Pieces(_, _)
Pieces(t, piece) ==
    IF t = <<>> THEN <<piece>>
    ELSE IF Head(t) = "\n" THEN <<piece>> \o Pieces(Tail(t), <<>>)
    ELSE Pieces(Tail(t), Append(piece, Head(t)))

\* The lines of a text, a line ending in LF or in CRLF.
LogicalLines(t) ==
    LET pieces == Pieces(t, <<>>)
    IN [i \in 1..Len(pieces) |->
          IF i < Len(pieces) /\ pieces[i] # <<>> /\ pieces[i][Len(pieces[i])] = "\r"
          THEN PopLast(pieces[i]) ELSE pieces[i]]

\* The FileState checks that read the file and got its contents.
FileChecksRead ==
    { k \in FileChecks : \E i \in ReadCalls(k) : ~calls[i].threw }

Contents(k) == calls[CHOOSE i \in ReadCalls(k) : TRUE].contents

HasError(k, kind) ==
    \E i \in 1..Len(stepResults[k].error) : stepResults[k].error[i].kind = kind

\* C13: an equals check reports a mismatch exactly when the file and the
\* expected text differ as sequences of lines, whether the lines of either
\* end in CRLF or in LF.
C13_EqualsIgnoresLineEndings ==
    \A k \in FileChecksRead :
        LET check == spec.steps[k].validation.check
        IN (check.equals # <<>> /\ (check.matches = <<>> \/ check.matches[1].valid)) =>
              (HasError(k, "File contents do not match exactly")
                  <=> LogicalLines(Contents(k)) # LogicalLines(check.equals[1]))

\* C13 witness: a file with LF line endings passed an equals check whose
\* expected text has CRLF line endings.
C13_Witness ==
    \E k \in FileChecksRead :
        /\ spec.steps[k].validation.check.equals = << <<"h", "\r", "\n", "i">> >>
        /\ Contents(k) = <<"h", "\n", "i">>
        /\ stepResults[k].success

\* C14: a contains check and a matches check pass on a file with CRLF line
\* endings whenever the expected text occurs in the file's content with
\* every CRLF replaced by LF.
C14_ContainsIgnoresLineEndings ==
    \A k \in FileChecksRead :
        LET check == spec.steps[k].validation.check
        IN /\ (/\ check.contains # <<>>
               /\ Includes(NormalizeCRLF(Contents(k)), check.contains[1]))
                  => ~HasError(k, "File does not contain")
           /\ (/\ check.matches # <<>>
               /\ check.matches[1].valid
               /\ Includes(NormalizeCRLF(Contents(k)), check.matches[1].lit))
                  => ~HasError(k, "File contents do not match pattern")

\* The loop of execute() is at a UIState (browser) check.
AtBrowserCheck ==
    /\ StepReady
    /\ CurStep.type = "validate"
    /\ CurStep.validation.type = "browser"

\* C15: a UIState (browser) check makes no sandbox call and gets a step
\* result with success=false and the error 'Browser validation not yet
\* implemented'; execute() returns with it as the last result, success=false.
C15_BrowserCheckFails ==
    [][AtBrowserCheck =>
          /\ stepResults' =
                Append(stepResults,
                       [stepId |-> CurStep.id, stepNumber |-> CurStep.stepNumber,
                        success |-> FALSE,
                        error |-> <<TextError("Browser validation not yet implemented",
                                              <<>>)>>,
                        output |-> NoOutput])
          /\ calls' = calls
          /\ pc' = "done"
          /\ result' = <<[stepResults |-> stepResults', success |-> FALSE]>>]_vars

\* C15 witness: the second operation was a browser check; the run returned
\* after it although the list may go on.
C15_Witness ==
    /\ Len(stepResults) = 2
    /\ spec.steps[2].type = "validate"
    /\ spec.steps[2].validation.type = "browser"
    /\ stepResults[1].success
    /\ ~stepResults[2].success
    /\ result # <<>>

(***************************************************************************)
(* Sandbox.executeCommand in the two backends: LocalSandbox (sandbox/      *)
(* local.ts) and DockerSandbox.  A command's process writes to stdout and  *)
(* stderr and exits; the container runtime sends what it wrote as frames   *)
(* of a multiplexed stream, which reaches the 'data' handler in chunks.    *)
(***************************************************************************)
STDOUT == 1
STDERR == 2
HeaderSize == 8

\* The bytes a process writes: "h" and "\n".
PayloadBytes == { 104, 10 }

RECURSIVE BytesUpTo(_)
BytesUpTo(n) ==
    IF n = 0 THEN { <<>> }
    ELSE LET shorter == BytesUpTo(n - 1)
         IN shorter \cup { Append(b, x) : b \in shorter, x \in PayloadBytes }

Frame(streamType, payload) == [streamType |-> streamType, payload |-> payload]

Frames == { Frame(t, p) : t \in { STDOUT, STDERR }, p \in BytesUpTo(MaxPayload) }

FrameSeqs == UNION { [1..n -> Frames] : n \in 0..MaxFrames }

\* Buffer.writeUInt32BE / Buffer.readUInt32BE
UInt32BE(n) ==
    << (n \div 16777216) % 256, (n \div 65536) % 256, (n \div 256) % 256, n % 256 >>

\* Mutant: the length is read with the least significant byte first.
readUInt32BE_LittleEndian(chunk, offset) ==
    chunk[offset + 1] + chunk[offset + 2] * 256
        + chunk[offset + 3] * 65536 + chunk[offset + 4] * 16777216

readUInt32BE(chunk, offset) ==
    chunk[offset + 1] * 16777216 + chunk[offset + 2] * 65536
        + chunk[offset + 3] * 256 + chunk[offset + 4]

\* One frame on the wire: [stream type][3 reserved bytes][size][payload].
Encode(frame) ==
    << frame.streamType, 0, 0, 0 >> \o UInt32BE(Len(frame.payload)) \o frame.payload

RECURSIVE Concat(_)
Concat(seqs) == IF seqs = <<>> THEN <<>> ELSE Head(seqs) \o Concat(Tail(seqs))

\* The whole multiplexed stream of a command.
Stream(fs) == Concat([i \in 1..Len(fs) |-> Encode(fs[i])])

\* What the process wrote to one of its streams.
Written(fs, streamType) ==
    Concat([i \in 1..Len(fs) |->
              IF fs[i].streamType = streamType THEN fs[i].payload ELSE <<>>])

\* The sets of at most k places at which a stream of n bytes is cut.
RECURSIVE CutSets(_, _)
CutSets(n, k) ==
    IF k = 0 THEN { {} }
    ELSE LET fewer == CutSets(n, k - 1)
         IN fewer \cup { c \cup {i} : c \in fewer, i \in 1..(n - 1) }

\* The chunks of bytes cut at the places in cuts, from offset from on.
RECURSIVE Split(_, _, _)
Split(bytes, cuts, from) ==
    IF from >= Len(bytes) THEN <<>>
    ELSE LET later == { c \in cuts : c > from /\ c < Len(bytes) }
             to == IF later = {} THEN Len(bytes)
                   ELSE CHOOSE c \in later : \A d \in later : c <= d
         IN << SubSeq(bytes, from + 1, to) >> \o Split(bytes, cuts, to)

\* The places where a frame ends.
FrameBoundaries(fs) == { Len(Stream(SubSeq(fs, 1, i))) : i \in 1..Len(fs) }

\* Buffer.toString('utf-8') of ASCII bytes.
CharOf(b) ==
    CASE b = 104 -> "h"
      [] b = 10 -> "\n"
      [] b = 13 -> "\r"
      [] b = 9 -> "\t"
      [] b = 32 -> " "
      [] OTHER -> "\\x" \o ToString(b)

toString(bytes) == [i \in 1..Len(bytes) |-> CharOf(bytes[i])]

\* The body of the 'data' handler (lines 186-212): the frames of one chunk,
\* from offset on, pushed onto stdoutChunks (outs) and stderrChunks (errs).
RECURSIVE OnData(_, _, _)
OnData(chunk, offset, acc) ==
    IF ~(offset < Len(chunk)) THEN acc
    ELSE IF Len(chunk) - offset < HeaderSize THEN acc
    ELSE LET streamType == chunk[offset + 1]
             payloadSize == readUInt32BE(chunk, offset + 4)
             start == offset + HeaderSize
         IN IF Len(chunk) - start < payloadSize THEN acc
            ELSE LET payload == SubSeq(chunk, start + 1, start + payloadSize)
                     pushed ==
                        IF streamType = STDOUT
                        THEN [acc EXCEPT !.outs = Append(@, payload)]
                        ELSE IF streamType = STDERR
                        THEN [acc EXCEPT !.errs = Append(@, payload)]
                        ELSE acc
                 IN OnData(chunk, start + payloadSize, pushed)

\* `/workspace/${workingDirectory.replace(/^\/+/, '')}`, or /workspace: the
\* container's /workspace is the workspace root.
DockerCwd(dir) ==
    [workspace |-> TRUE, segs |-> IF Truthy(dir) THEN Normalize(dir.segs) ELSE <<>>]

\* resolve(this.workspaceRoot, workingDirectory), or the workspace root: an
\* absolute workingDirectory is taken from the root of the file system.
LocalCwd(dir) ==
    IF Truthy(dir) THEN [workspace |-> ~dir.abs, segs |-> Normalize(dir.segs)]
    ELSE [workspace |-> TRUE, segs |-> <<>>]

\* A resolved CommandResult, with the directory the process was started in.
Resolved(code, stdout, stderr, cwd) ==
    [exitCode |-> code, stdout |-> stdout, stderr |-> stderr, cwd |-> cwd]

\* The 'end' handler (lines 215-225).
OnEnd(outs, errs, code, dir) ==
    Resolved(code, Trim(toString(Concat(outs))), Trim(toString(Concat(errs))),
             DockerCwd(dir))

\* LocalSandbox.executeCommand's return values (lines 100-104 and 108-112):
\* child_process.exec's stdout and stderr as they were written.
LocalResult(fs, code, dir) ==
    Resolved(code, toString(Written(fs, STDOUT)), toString(Written(fs, STDERR)),
             LocalCwd(dir))

\* No tutorial is being executed.
EngineIdle ==
    /\ spec = [steps |-> <<>>, prerequisites |-> <<>>, workingDirectory |-> EmptyStr,
               env |-> [v \in {"K"} |-> "global"]]
    /\ pc = "idle"
    /\ currentWorkingDir = EmptyStr
    /\ stepResults = <<>>
    /\ result = <<>>
    /\ calls = <<>>

\* stream.on('data', ...): the next chunk arrives.
StreamData ==
    /\ dockerResult = <<>>
    /\ chunks # <<>>
    /\ LET pushed == OnData(Head(chunks), 0, [outs |-> stdoutChunks, errs |-> stderrChunks])
       IN /\ stdoutChunks' = pushed.outs
          /\ stderrChunks' = pushed.errs
    /\ chunks' = Tail(chunks)
    /\ UNCHANGED <<agentVars, engineVars, editVars, teardownVars, frames, processExitCode,
                   commandDir, dockerResult, localResult>>

\* stream.on('end', ...): the stream ended, the promise resolves.  The exit
\* code is inspect.ExitCode || 0, which is inspect.ExitCode for a number.
StreamEnd ==
    /\ dockerResult = <<>>
    /\ chunks = <<>>
    /\ dockerResult' = << OnEnd(stdoutChunks, stderrChunks, processExitCode, commandDir) >>
    /\ UNCHANGED <<agentVars, engineVars, editVars, teardownVars, frames, processExitCode,
                   commandDir, chunks, stdoutChunks, stderrChunks, localResult>>

\* LocalSandbox.executeCommand runs the same command.
LocalExecuteCommand ==
    /\ localResult = <<>>
    /\ localResult' = << LocalResult(frames, processExitCode, commandDir) >>
    /\ UNCHANGED <<agentVars, engineVars, editVars, teardownVars, frames, processExitCode,
                   commandDir, chunks, stdoutChunks, stderrChunks, dockerResult>>

\* DockerSandbox.executeCommand has started a command in the workspace root
\* that exits 0; the stream of its frames arrives cut at any places.
InitStream ==
    /\ AgentIdle
    /\ EngineIdle
    /\ frames \in FrameSeqs
    /\ processExitCode = 0
    /\ commandDir = EmptyStr
    /\ \E cuts \in CutSets(Len(Stream(frames)), MaxCuts) :
          chunks = Split(Stream(frames), cuts, 0)
    /\ stdoutChunks = <<>>
    /\ stderrChunks = <<>>
    /\ dockerResult = <<>>
    /\ localResult = <<>>
    /\ EditIdle
    /\ TeardownIdle

NextStream == StreamData \/ StreamEnd

SpecStream == InitStream /\ [][NextStream]_vars

ExitCodes == { 0, 1 }

WorkingDirs == { EmptyStr, Rel(<<"a">>), Rel(<<"a", "..", "b">>), Abs(<<"abs">>) }

\* Both backends execute the same command with the same arguments; each
\* chunk of the container's stream holds whole frames: one frame each, or
\* all of them.
InitBackends ==
    /\ AgentIdle
    /\ EngineIdle
    /\ frames \in FrameSeqs
    /\ processExitCode \in ExitCodes
    /\ commandDir \in WorkingDirs
    /\ \E cuts \in { {}, FrameBoundaries(frames) } :
          chunks = Split(Stream(frames), cuts, 0)
    /\ stdoutChunks = <<>>
    /\ stderrChunks = <<>>
    /\ dockerResult = <<>>
    /\ localResult = <<>>
    /\ EditIdle
    /\ TeardownIdle

NextBackends == StreamData \/ StreamEnd \/ LocalExecuteCommand

SpecBackends == InitBackends /\ [][NextBackends]_vars

\* What the decoder yields for the chunks cs, from empty stdoutChunks and
\* stderrChunks.
RECURSIVE Decoded(_, _)
Decoded(cs, acc) ==
    IF cs = <<>> THEN acc ELSE Decoded(Tail(cs), OnData(Head(cs), 0, acc))

Unsplit(fs) == Decoded(<< Stream(fs) >>, [outs |-> <<>>, errs |-> <<>>])

\* C9: the stdout and stderr DockerSandbox.executeCommand resolves with are
\* those it resolves with when the same stream arrives in one unsplit chunk,
\* wherever the chunks' boundaries fall.
C9_ChunkingInvariant ==
    dockerResult # <<>> =>
        /\ dockerResult[1].stdout = Trim(toString(Concat(Unsplit(frames).outs)))
        /\ dockerResult[1].stderr = Trim(toString(Concat(Unsplit(frames).errs)))

\* C10: for the same command, working directory and environment the two
\* backends return the same exitCode, stdout and stderr, whitespace
\* included, and start the process in the same directory.
C10_BackendsAgree ==
    (dockerResult # <<>> /\ localResult # <<>>) => dockerResult[1] = localResult[1]

(***************************************************************************)
(* The edit engine (sandbox/fileChangeUtils.ts): pure functions from the   *)
(* contents of a file and a FileChange to the new contents.  A file path   *)
(* is kept as its extension.                                               *)
(***************************************************************************)
MaxOf(a, b) == IF a >= b THEN a ELSE b
MinOf(a, b) == IF a <= b THEN a ELSE b

\* s.split('\n')
RECURSIVE SplitFrom(_, _)
SplitFrom(t, line) ==
    IF t = <<>> THEN <<line>>
    ELSE IF Head(t) = "\n" THEN <<line>> \o SplitFrom(Tail(t), <<>>)
    ELSE SplitFrom(Tail(t), Append(line, Head(t)))

SplitLines(t) == SplitFrom(t, <<>>)

\* lines.join('\n')
RECURSIVE JoinLines(_)
JoinLines(lines) ==
    IF lines = <<>> THEN <<>>
    ELSE IF Len(lines) = 1 THEN lines[1]
    ELSE lines[1] \o <<"\n">> \o JoinLines(Tail(lines))

\* String.prototype.indexOf: the offset of the first occurrence, or -1.
IndexOf(hay, needle) ==
    LET at == { i \in 0..(Len(hay) - Len(needle)) :
                  SubSeq(hay, i + 1, i + Len(needle)) = needle }
    IN IF at = {} THEN -1 ELSE CHOOSE i \in at : \A j \in at : i <= j

StartsWith(t, c) == t # <<>> /\ t[1] = c
EndsWith(t, c) == t # <<>> /\ t[Len(t)] = c

\* Array.prototype.splice(start, deleteCount, ...items) on a copy.
Splice(arr, start, deleteCount, items) ==
    LET from == IF start < 0 THEN MaxOf(Len(arr) + start, 0) ELSE MinOf(start, Len(arr))
        count == MaxOf(0, MinOf(deleteCount, Len(arr) - from))
    IN SubSeq(arr, 1, from) \o items \o SubSeq(arr, from + count + 1, Len(arr))

\* The result of a function that returns contents or throws.
Returned(contents) == [threw |-> FALSE, msg |-> "", contents |-> contents]
Thrown(msg) == [threw |-> TRUE, msg |-> msg, contents |-> <<>>]

\* findPatternLineIndex: index is the 0-based line index it returns.
Found(index) == [threw |-> FALSE, index |-> index]

\* Mutant: a pattern that is not found is taken to be on the first line.
NotFound_FirstLine == Found(0)

NotFound == [threw |-> TRUE, index |-> -1]

\* Mutant: a multi-line pattern is found at the line on which it starts.
findPatternLineIndex_FirstLine(contents, pattern) ==
    LET lines == SplitLines(contents)
    IN IF Includes(pattern, <<"\n">>)
       THEN LET patternIndex == IndexOf(contents, pattern)
            IN IF patternIndex = -1 THEN NotFound
               ELSE Found(Len(SplitLines(SubSeq(contents, 1, patternIndex))) - 1)
       ELSE LET hits == { i \in 0..(Len(lines) - 1) : Includes(lines[i + 1], pattern) }
            IN IF hits = {} THEN NotFound
               ELSE Found(CHOOSE i \in hits : \A j \in hits : i <= j)

findPatternLineIndex(contents, pattern) ==
    LET lines == SplitLines(contents)
    IN IF Includes(pattern, <<"\n">>)
       THEN LET patternIndex == IndexOf(contents, pattern)
            IN IF patternIndex = -1 THEN NotFound
               ELSE LET beforePattern == SubSeq(contents, 1, patternIndex)
                        patternLines == SplitLines(pattern)
                    IN Found(Len(SplitLines(beforePattern)) - 1 + Len(patternLines))
       ELSE LET hits == { i \in 0..(Len(lines) - 1) : Includes(lines[i + 1], pattern) }
            IN IF hits = {} THEN NotFound
               ELSE Found(CHOOSE i \in hits : \A j \in hits : i <= j)

\* GetSubstitution for a string pattern (no capture groups): in the
\* replacement text "$$" stands for "$", "$&" for the matched text, "$`" and
\* "$'" for the text before and after the match.
RECURSIVE GetSubstitution(_, _, _, _)
GetSubstitution(replacement, matched, before, after) ==
    IF replacement = <<>> THEN <<>>
    ELSE IF Head(replacement) = "$" /\ Len(replacement) >= 2
    THEN LET rest == SubSeq(replacement, 3, Len(replacement))
             next == replacement[2]
         IN IF next = "$" THEN <<"$">> \o GetSubstitution(rest, matched, before, after)
            ELSE IF next = "&" THEN matched \o GetSubstitution(rest, matched, before, after)
            ELSE IF next = "`" THEN before \o GetSubstitution(rest, matched, before, after)
            ELSE IF next = "'" THEN after \o GetSubstitution(rest, matched, before, after)
            ELSE <<"$">> \o GetSubstitution(Tail(replacement), matched, before, after)
    ELSE <<Head(replacement)>> \o GetSubstitution(Tail(replacement), matched, before, after)

\* contents.replace(find, replace) with a string `find`: the first
\* occurrence only.
StringReplace(contents, find, replace) ==
    LET at == IndexOf(contents, find)
    IN IF at = -1 THEN contents
       ELSE LET before == SubSeq(contents, 1, at)
                after == SubSeq(contents, at + Len(find) + 1, Len(contents))
            IN before \o GetSubstitution(replace, find, before, after) \o after

\* The diff change: each of removeLines, insertLines and findReplace is <<>>
\* (absent) or a one-element sequence holding the record.
DiffChange(removeLines, insertLines, findReplace) ==
    [type |-> "diff", removeLines |-> removeLines, insertLines |-> insertLines,
     findReplace |-> findReplace, searchPattern |-> <<>>, action |-> "none",
     content |-> <<>>, contents |-> <<>>]

ContextChange(searchPattern, action, content) ==
    [type |-> "context", removeLines |-> <<>>, insertLines |-> <<>>, findReplace |-> <<>>,
     searchPattern |-> searchPattern, action |-> action, content |-> content,
     contents |-> <<>>]

ReplaceChange(contents) ==
    [type |-> "replace", removeLines |-> <<>>, insertLines |-> <<>>, findReplace |-> <<>>,
     searchPattern |-> <<>>, action |-> "none", content |-> <<>>, contents |-> contents]

\* Mutant: the range's end is exclusive.
DeleteCount_Exclusive(start, end) == end - start

\* end - start + 1: the number of lines of the range [start, end].
DeleteCount(start, end) == end - start + 1

applyDiffChange(contents, change) ==
    LET lines == SplitLines(contents)
        removed == IF change.removeLines # <<>>
                   THEN Splice(lines, change.removeLines[1].start,
                               DeleteCount(change.removeLines[1].start,
                                           change.removeLines[1].end),
                               <<>>)
                   ELSE lines
        inserted == IF change.insertLines # <<>>
                    THEN Splice(removed, change.insertLines[1].at, 0,
                                change.insertLines[1].lines)
                    ELSE removed
    IN IF change.findReplace # <<>>
       THEN StringReplace(contents, change.findReplace[1].find,
                          change.findReplace[1].replace)
       ELSE JoinLines(inserted)

\* The number of "{" of a line less the number of its "}".
BraceDelta(line) ==
    Cardinality({ i \in 1..Len(line) : line[i] = "{" })
        - Cardinality({ i \in 1..Len(line) : line[i] = "}" })

RECURSIVE BraceDepth(_, _)
BraceDepth(lines, upTo) ==
    IF upTo = 0 THEN 0 ELSE BraceDepth(lines, upTo - 1) + BraceDelta(lines[upTo])

\* The look-ahead loop of lines 138-165, from the 0-based line index j with
\* the brace depth reached before it: hasMoreProperties.
\* Mutant: the look-ahead never finds a further property.
HasMoreProperties_Never(lines, j, braceDepth) == FALSE

RECURSIVE HasMoreProperties(_, _, _)
HasMoreProperties(lines, j, braceDepth) ==
    IF ~(j < Len(lines)) THEN FALSE
    ELSE LET nextLine == lines[j + 1]
             trimmedNext == Trim(nextLine)
             depth == braceDepth + BraceDelta(nextLine)
         IN IF trimmedNext = <<>> THEN HasMoreProperties(lines, j + 1, depth)
            ELSE IF depth < 0 THEN FALSE
            ELSE IF StartsWith(trimmedNext, "\"") THEN TRUE
            ELSE IF StartsWith(trimmedNext, "}") THEN FALSE
            ELSE HasMoreProperties(lines, j + 1, depth)

\* matchedLine.replace(/([^,])$/, '$1,')
AppendComma(line) ==
    IF line # <<>> /\ line[Len(line)] # "," THEN Append(line, ",") ELSE line

\* insertedContent.replace(/,\s*$/, ''): the last comma and the whitespace
\* after it, when nothing but whitespace follows that comma.
StripTrailingComma(t) ==
    LET commas == { i \in 1..Len(t) :
                      /\ t[i] = ","
                      /\ \A j \in (i + 1)..Len(t) : IsWhitespace(t[j]) }
    IN IF commas = {} THEN t
       ELSE SubSeq(t, 1, (CHOOSE i \in commas : \A j \in commas : i <= j) - 1)

ClosesLine == { ",", "{", "[", "}", "]" }

\* Lines 96-172: the insertion after line foundIndex of a .json file.
InsertAfterJson(lines, foundIndex, content) ==
    LET matchedLine == lines[foundIndex + 1]
        trimmedLine == Trim(matchedLine)
        needsComma == /\ Len(trimmedLine) > 0
                      /\ trimmedLine[Len(trimmedLine)] \notin ClosesLine
                      /\ StartsWith(Trim(content), "\"")
        withComma == IF needsComma
                     THEN [lines EXCEPT ![foundIndex + 1] = AppendComma(matchedLine)]
                     ELSE lines
        hasMoreProperties ==
            HasMoreProperties(withComma, foundIndex + 1, BraceDepth(withComma, foundIndex + 1))
        insertedContent ==
            IF ~hasMoreProperties /\ EndsWith(Trim(content), ",")
            THEN StripTrailingComma(content) ELSE content
    IN Splice(withComma, foundIndex + 1, 0, <<insertedContent>>)

\* lines[foundIndex] = content, foundIndex at most lines.length.
SetLine(lines, foundIndex, content) ==
    IF foundIndex < Len(lines) THEN [lines EXCEPT ![foundIndex + 1] = content]
    ELSE Append(lines, content)

applyContextChange(contents, change, isJsonFile) ==
    LET lines == SplitLines(contents)
        found == findPatternLineIndex(contents, change.searchPattern)
        foundIndex == found.index
    IN IF found.threw THEN Thrown("Search pattern not found")
       ELSE IF change.action = "before"
       THEN Returned(JoinLines(Splice(lines, foundIndex, 0, <<change.content>>)))
       ELSE IF change.action = "after"
       THEN IF isJsonFile /\ foundIndex >= 0 /\ foundIndex < Len(lines)
            THEN Returned(JoinLines(InsertAfterJson(lines, foundIndex, change.content)))
            ELSE Returned(JoinLines(Splice(lines, foundIndex + 1, 0, <<change.content>>)))
       ELSE IF change.action = "replace"
       THEN Returned(JoinLines(SetLine(lines, foundIndex, change.content)))
       ELSE Returned(JoinLines(lines))

applyFileChangeToContents(contents, change, isJsonFile) ==
    IF change.type = "replace" THEN Returned(change.contents)
    ELSE IF change.type = "diff" THEN Returned(applyDiffChange(contents, change))
    ELSE IF change.type = "context" THEN applyContextChange(contents, change, isJsonFile)
    ELSE Returned(contents)

(***************************************************************************)
(* Sandbox.applyFileChange (DockerSandbox with the workspace mounted) for  *)
(* one file, and the Edit step of the engine that calls it.                *)
(***************************************************************************)
\* {"a":1} and the property texts of the JSON edits.
PropertyA == <<"\"", "a", "\"", ":", "1">>
PropertyB == <<"\"", "b", "\"", ":", "2">>
PropertyC == <<"\"", "c", "\"", ":", "3">>
PropertyArr == <<"\"", "a", "\"", ":", "[", "1", "]">>
PropertyObj == <<"\"", "o", "\"", ":", "{">>
JsonOneLine == <<"{">> \o PropertyA \o <<"}">>

\* The contents a target file starts with.
FileTexts ==
    { JoinLines(<< <<"a">>, <<"b">>, <<"c">> >>),
      JoinLines(<< <<"a">>, <<"b">>, <<"a">> >>),
      JsonOneLine,
      JoinLines(<< <<"{">>, PropertyA, <<"}">> >>),
      JoinLines(<< <<"{">>, PropertyA \o <<",">>, PropertyC, <<"}">> >>),
      JoinLines(<< <<"{">>, PropertyArr, <<"}">> >>),
      JoinLines(<< <<"{">>, PropertyObj, PropertyA, <<"}", ",">>, PropertyC, <<"}">> >>) }

SearchPatterns ==
    { <<"a">>, <<"a", "\n", "b">>, <<"b", "\n", "c">>, <<"z">>, <<"z", "\n", "z">>, PropertyA }

InsertedContents ==
    { <<"n">>, <<"n", "\n", "m">>, PropertyB, PropertyB \o <<",">>, PropertyB \o <<",", "\n">> }

ContextChanges ==
    { ContextChange(p, a, c) :
        p \in SearchPatterns, a \in { "before", "after", "replace" }, c \in InsertedContents }

RemoveLines == { [start |-> s, end |-> e] : s \in 0..MaxIndex, e \in 0..MaxIndex }

InsertLines ==
    { [at |-> i, lines |-> l] :
        i \in 0..MaxIndex, l \in { <<>>, << <<"n">> >>, << <<"n">>, <<"m">> >> } }

FindReplaces ==
    { [find |-> f, replace |-> r] :
        f \in { <<"a">>, <<"q">> }, r \in { <<"z", "z">>, <<"$", "$">> } }

Optional(S) == { <<>> } \cup { <<x>> : x \in S }

DiffChanges ==
    { DiffChange(r, i, f) :
        r \in Optional(RemoveLines), i \in Optional(InsertLines), f \in Optional(FindReplaces) }

ReplaceChanges == { ReplaceChange(<<"r">>) }

\* The Edit step that carries the change.
EditStep(c) == WithId(ChangeFileStep(c.type, Rel(<<"f">>)), 1)

\* applyFileChange (lines 337-358) called by executeChangeFileStep: the file
\* is read if it exists, the change applied to its contents and the result
\* written back; an error thrown on the way leaves the file as it was and
\* reaches the catch block of executeStep.
\* Mutant: the target file is created before the change is computed.
ApplyFileChange_CreatesFile(c) ==
    LET contents == IF file = <<>> THEN <<>> ELSE file[1]
        modified == applyFileChangeToContents(contents, c, jsonPath)
        applied == [threw |-> modified.threw, msg |-> modified.msg]
    IN /\ editResult = <<>>
       /\ fileChange' = <<c>>
       /\ file' = IF modified.threw THEN <<contents>> ELSE <<modified.contents>>
       /\ editResult' =
             <<executeStep(EditStep(c), executeChangeFileStep(EditStep(c), 1, EmptyStr, applied))>>
       /\ UNCHANGED <<agentVars, engineVars, sandboxVars, teardownVars, jsonPath>>

ApplyFileChange(c) ==
    LET contents == IF file = <<>> THEN <<>> ELSE file[1]
        modified == applyFileChangeToContents(contents, c, jsonPath)
        applied == [threw |-> modified.threw, msg |-> modified.msg]
    IN /\ editResult = <<>>
       /\ fileChange' = <<c>>
       /\ file' = IF modified.threw THEN file ELSE <<modified.contents>>
       /\ editResult' =
             <<executeStep(EditStep(c), executeChangeFileStep(EditStep(c), 1, EmptyStr, applied))>>
       /\ UNCHANGED <<agentVars, engineVars, sandboxVars, teardownVars, jsonPath>>

FileChanges == ReplaceChanges \cup DiffChanges \cup ContextChanges

InitEdit ==
    /\ AgentIdle
    /\ EngineIdle
    /\ SandboxIdle
    /\ TeardownIdle
    /\ file \in Optional(FileTexts)
    /\ jsonPath \in BOOLEAN
    /\ fileChange = <<>>
    /\ editResult = <<>>

NextEdit == \E c \in FileChanges : ApplyFileChange(c)

SpecEdit == InitEdit /\ [][NextEdit]_vars

\* The text of a file, "" for an absent file.
TextOf(f) == IF f = <<>> THEN <<>> ELSE f[1]

\* A change of the given type is applied in this step.
Applies(type) == fileChange = <<>> /\ fileChange' # <<>> /\ fileChange'[1].type = type

\* C16: a ContextAnchor edit whose search pattern does not occur in the
\* file's content throws 'Search pattern ... not found': the Edit step fails
\* with that message and the file is left as it was, not rewritten.
C16_PatternNotFoundFails ==
    [][(/\ Applies("context")
        /\ ~Includes(TextOf(file), fileChange'[1].searchPattern)) =>
           /\ file' = file
           /\ ~editResult'[1].success
           /\ editResult'[1].error = <<ExceptionError("Search pattern not found")>>]_vars

\* C16 witness: a multi-line pattern that does not occur in the file was
\* searched for and the Edit step failed.
C16_Witness ==
    /\ file # <<>>
    /\ fileChange # <<>>
    /\ fileChange[1].type = "context"
    /\ fileChange[1].searchPattern = <<"z", "\n", "z">>
    /\ editResult # <<>>
    /\ ~editResult[1].success

\* The number of lines of a text: its "\n" characters plus one.
Newlines(t) == Cardinality({ i \in 1..Len(t) : t[i] = "\n" })
LineCount(t) == Newlines(t) + 1

\* C17: a ContextAnchor edit with action before or after whose pattern
\* occurs in the content adds to the line count the number of newline
\* characters of the content to insert plus one, whatever the path.
C17_InsertAddsLines ==
    [][(/\ Applies("context")
        /\ fileChange'[1].action \in { "before", "after" }
        /\ Includes(TextOf(file), fileChange'[1].searchPattern)) =>
           /\ editResult'[1].success
           /\ LineCount(TextOf(file')) =
                 LineCount(TextOf(file)) + Newlines(fileChange'[1].content) + 1]_vars

\* The same for the paths that do not end in .json.
InsertAddsLinesOutsideJson ==
    [][(/\ Applies("context")
        /\ ~jsonPath
        /\ fileChange'[1].action \in { "before", "after" }
        /\ Includes(TextOf(file), fileChange'[1].searchPattern)) =>
           /\ editResult'[1].success
           /\ LineCount(TextOf(file')) =
                 LineCount(TextOf(file)) + Newlines(fileChange'[1].content) + 1]_vars

\* The lines a LineDiff edit removes from a content of n lines: the indices
\* of [start, end] that lie inside [0, n-1].
Deleted(c, n) ==
    IF c.removeLines = <<>> THEN 0
    ELSE Cardinality((c.removeLines[1].start .. c.removeLines[1].end) \cap (0 .. n - 1))

\* The lines a LineDiff edit inserts.
Inserted(c) == IF c.insertLines = <<>> THEN 0 ELSE Len(c.insertLines[1].lines)

\* A text of k lines; the empty text is also what no line at all is joined to.
HasLines(t, k) == IF k = 0 THEN t = <<>> ELSE LineCount(t) = k

\* C18: a LineDiff edit without findReplace on a content of n lines, removing
\* [s,e] and inserting m lines, succeeds for every start, end and at, and
\* gives n - d + m lines, d being the indices of [s,e] inside [0,n-1].
C18_DiffLineCount ==
    [][(Applies("diff") /\ fileChange'[1].findReplace = <<>>) =>
          /\ editResult'[1].success
          /\ HasLines(TextOf(file'),
                      LineCount(TextOf(file))
                        - Deleted(fileChange'[1], LineCount(TextOf(file)))
                        + Inserted(fileChange'[1]))]_vars

\* C18 witness: a range reaching past the end of a three-line file was
\* removed and two lines were inserted at its start.
C18_Witness ==
    /\ fileChange # <<>>
    /\ fileChange[1].type = "diff"
    /\ fileChange[1].findReplace = <<>>
    /\ fileChange[1].removeLines = <<[start |-> 1, end |-> MaxIndex]>>
    /\ fileChange[1].insertLines # <<>>
    /\ fileChange[1].insertLines[1].at = 1
    /\ Len(fileChange[1].insertLines[1].lines) = 2
    /\ editResult # <<>>
    /\ editResult[1].success
    /\ file = <<<<"a", "\n", "n", "\n", "m">>>>

\* The text with the first occurrence of find replaced by the text replace,
\* taken literally; the text itself if find does not occur.
RECURSIVE ReplaceFirstLiteral(_, _, _)
ReplaceFirstLiteral(t, find, replace) ==
    IF Len(t) < Len(find) THEN t
    ELSE IF SubSeq(t, 1, Len(find)) = find THEN replace \o SubSeq(t, Len(find) + 1, Len(t))
    ELSE <<t[1]>> \o ReplaceFirstLiteral(Tail(t), find, replace)

\* C19: a LineDiff edit with findReplace gives the original content with the
\* first occurrence of the literal find replaced by replace, whatever its
\* removeLines and insertLines.
C19_FindReplaceIsLiteral ==
    [][(Applies("diff") /\ fileChange'[1].findReplace # <<>>) =>
          /\ editResult'[1].success
          /\ TextOf(file') = ReplaceFirstLiteral(TextOf(file),
                                                 fileChange'[1].findReplace[1].find,
                                                 fileChange'[1].findReplace[1].replace)]_vars

\* The same for the replacement texts without a "$".
FindReplaceWithoutDollar ==
    [][(/\ Applies("diff")
        /\ fileChange'[1].findReplace # <<>>
        /\ \A i \in 1..Len(fileChange'[1].findReplace[1].replace) :
              fileChange'[1].findReplace[1].replace[i] # "$") =>
          /\ editResult'[1].success
          /\ TextOf(file') = ReplaceFirstLiteral(TextOf(file),
                                                 fileChange'[1].findReplace[1].find,
                                                 fileChange'[1].findReplace[1].replace)]_vars

\* A text without its white space.
Compact(t) == SelectSeq(t, LAMBDA ch : ch \notin { " ", "\n", "\t", "\r" })

\* C20: inserting "b":2 after the anchor "a":1 in the .json file {"a":1}
\* gives valid JSON equal to {"a":1,"b":2}.
C20_JsonInsertIsValid ==
    [][(/\ Applies("context")
        /\ jsonPath
        /\ file = <<JsonOneLine>>
        /\ fileChange'[1].action = "after"
        /\ fileChange'[1].searchPattern = PropertyA
        /\ fileChange'[1].content = PropertyB) =>
          /\ editResult'[1].success
          /\ Compact(TextOf(file')) \in
                { <<"{">> \o PropertyA \o <<",">> \o PropertyB \o <<"}">>,
                  <<"{">> \o PropertyB \o <<",">> \o PropertyA \o <<"}">> }]_vars

\* An insertion after the line of a single-line pattern in a .json file.
AppliesJsonAfter ==
    /\ Applies("context")
    /\ jsonPath
    /\ fileChange'[1].action = "after"
    /\ Newlines(fileChange'[1].searchPattern) = 0
    /\ Includes(TextOf(file), fileChange'[1].searchPattern)

\* The 0-based index of the first line of a text that contains the pattern.
MatchedIndex(t, pattern) ==
    CHOOSE i \in 0..Newlines(t) :
        /\ Includes(SplitLines(t)[i + 1], pattern)
        /\ \A j \in 0..(i - 1) : ~Includes(SplitLines(t)[j + 1], pattern)

\* The matched line wants a comma: it has no trailing comma, is not itself
\* a brace or bracket, and the content to insert starts with a double quote.
WantsComma(line, content) ==
    /\ ~EndsWith(Trim(line), ",")
    /\ Trim(line) \notin { <<"{">>, <<"}">>, <<"[">>, <<"]">> }
    /\ StartsWith(Trim(content), "\"")

\* C21: for an insertion after a matched line of a .json file, the matched
\* line ends with a comma in the result if it lacked one, is not itself a
\* brace or bracket and the trimmed content starts with a double quote;
\* otherwise the matched line is left unchanged.
C21_MatchedLineGetsComma ==
    [][AppliesJsonAfter =>
          LET m == MatchedIndex(TextOf(file), fileChange'[1].searchPattern)
              before == SplitLines(TextOf(file))[m + 1]
              after == SplitLines(TextOf(file'))[m + 1]
          IN IF WantsComma(before, fileChange'[1].content)
             THEN EndsWith(after, ",")
             ELSE after = before]_vars

\* The same with "does not end with a brace or bracket" in the place of
\* "is not itself a brace or bracket".
MatchedLineGetsCommaUnlessItEndsWithBrace ==
    [][AppliesJsonAfter =>
          LET m == MatchedIndex(TextOf(file), fileChange'[1].searchPattern)
              before == SplitLines(TextOf(file))[m + 1]
              after == SplitLines(TextOf(file'))[m + 1]
          IN IF /\ WantsComma(before, fileChange'[1].content)
                /\ ~(\E b \in { "{", "}", "[", "]" } : EndsWith(Trim(before), b))
             THEN EndsWith(after, ",")
             ELSE after = before]_vars

\* The 0-based line index an edit is anchored at: the first line containing
\* a single-line pattern; for a multi-line pattern the line after its last.
AnchorIndex(t, pattern) ==
    IF Newlines(pattern) = 0 THEN MatchedIndex(t, pattern)
    ELSE LET at == CHOOSE i \in 0..Len(t) :
                     /\ SubSeq(t, i + 1, i + Len(pattern)) = pattern
                     /\ \A j \in 0..(i - 1) : SubSeq(t, j + 1, j + Len(pattern)) # pattern
         IN Newlines(SubSeq(t, 1, at)) + Newlines(pattern) + 1

\* A property line follows line a of the lines before a line that begins
\* with the closing brace of the enclosing object.
PropertyFollows(lines, a) ==
    \E j \in (a + 1)..(Len(lines) - 1) :
        /\ StartsWith(Trim(lines[j + 1]), "\"")
        /\ \A k \in (a + 1)..(j - 1) : ~StartsWith(Trim(lines[k + 1]), "}")

\* The text that a step put after line a of a file.
InsertedAfter(old, new, a) ==
    JoinLines(SubSeq(SplitLines(new), a + 2, Len(SplitLines(new)) - (Len(SplitLines(old)) - a - 1)))

\* A text without its last character.
ButLast(t) == SubSeq(t, 1, Len(t) - 1)

\* An insertion after a line of a .json file.
AppliesJsonAfterLine ==
    /\ Applies("context")
    /\ jsonPath
    /\ fileChange'[1].action = "after"
    /\ Includes(TextOf(file), fileChange'[1].searchPattern)
    /\ AnchorIndex(TextOf(file), fileChange'[1].searchPattern) <= Newlines(TextOf(file))

CommaKeptBeforeProperty ==
    /\ jsonPath
    /\ fileChange # <<>>
    /\ fileChange[1].type = "context"
    /\ fileChange[1].action = "after"
    /\ file = <<JoinLines(<< <<"{">>, PropertyA \o <<",">>, PropertyB \o <<",">>,
                             PropertyC, <<"}">> >>)>>

(***************************************************************************)
(* Properties of execute() before the first step.                          *)
(***************************************************************************)
\* execute() returns from the prerequisite check through its catch block.
PrerequisiteAbort == pc = "prerequisites" /\ pc' = "done" /\ ~result'[1].success

\* execute() returns from sandbox.initialize() through its catch block.
InitializeAbort == pc = "initialize" /\ pc' = "done"

\* C26: when a declared prerequisite is missing, execute() dispatches no
\* operation and the result it returns holds no failed step result
\* attributed to an operation of the list.
C26_PrerequisiteFailureIsNotAStepFailure ==
    [][PrerequisiteAbort =>
          /\ \A i \in 1..Len(calls') : calls'[i].step = 0
          /\ \A k \in 1..Len(result'[1].stepResults) : result'[1].stepResults[k].success]_vars

\* C27: when the prerequisite check aborts the run, the workspace has not
\* been created by initialize() and no command has been run through the
\* sandbox.
C27_PrerequisitesBeforeWorkspace ==
    [][PrerequisiteAbort =>
          \A i \in 1..Len(calls') : calls'[i].op \notin { "initialize", "executeCommand" }]_vars

\* C28: when sandbox.initialize() fails, no step result is produced for any
\* operation of the list.
C28_InitializeFailureHasNoStep ==
    [][InitializeAbort => result'[1].stepResults = <<>>]_vars

(***************************************************************************)
(* The end of a run: the two command-line drivers (cli.ts main and the     *)
(* validator's main) around execute(), and Sandbox.cleanup in the two      *)
(* backends (LocalSandbox with killBackgroundProcesses, DockerSandbox).    *)
(***************************************************************************)
\* One teardown operation as it was attempted: status is the statusCode of
\* the container runtime's error (0 without one), code the code of a signal
\* error, warned whether console.warn was called for it.
Event(op, pid, ok, status, code, warned) ==
    [op |-> op, pid |-> pid, ok |-> ok, status |-> status, code |-> code, warned |-> warned]

Done(op) == Event(op, 0, TRUE, 0, "", FALSE)

\* An entry of backgroundProcesses: pid -1 while the pid is not known, port
\* 0 without a port.
Tracked(pid, port) == [pid |-> pid, port |-> port]

TrackedProcesses ==
    { Tracked(-1, 5173), Tracked(1, 0), Tracked(1, 5173), Tracked(2, 0) }

TrackedLists == UNION { [1..n -> TrackedProcesses] : n \in 0..MaxProcs }

Pids(procs) == { procs[i].pid : i \in 1..Len(procs) } \ { -1 }

\* The statements of main from execute() on, in the try block.
TryBlock(d) ==
    IF d = "cli" THEN <<"execute", "display", "cleanup", "exit">>
    ELSE IF d = "validator" THEN <<"execute", "cleanup", "exit">>
    ELSE <<"cleanup", "return">>

\* Mutant: the handler exits without cleaning up.
CatchBlock_NoCleanup(d) == <<"exit1">>

\* The statements that run once the try block (cli.ts) or execute() (the
\* validator's .finally) has thrown.
CatchBlock(d) == <<"cleanup", "exit1">>

\* Mutant: the workspace is never kept.
KeepWorkspace_Never(arg) == FALSE

\* this.keepWorkspace = keepWorkspace || false
KeepWorkspace(arg) == arg = <<TRUE>>

\* Mutant: the process is taken to exist whatever process.kill(pid, 0) says.
StillExists_Always(pid, live) == TRUE

\* process.kill(pid, 0) does not throw.
StillExists(pid, live) == pid \in live

\* What container.stop() and container.remove() answer: 0 for success, else
\* the statusCode of the error.
StopOutcomes(state) ==
    IF state = "running" THEN { 0, 500 } ELSE IF state = "stopped" THEN { 304 } ELSE { 404 }

RemoveOutcomes(state) ==
    IF state = "stopped" THEN { 0, 409, 500 } ELSE IF state = "running" THEN { 409 } ELSE { 404 }

\* error.statusCode !== 404 && error.statusCode !== 409
WarnsOnStatus(status) == status # 404 /\ status # 409

\* execute() resolves or rejects.
DriverExecute ==
    /\ dpc # <<>>
    /\ Head(dpc) = "execute"
    /\ \E outcome \in { "success", "failure", "threw" } :
         /\ executed' = outcome
         /\ dpc' = IF outcome = "threw" THEN CatchBlock(driver) ELSE Tail(dpc)
    /\ UNCHANGED <<agentVars, engineVars, sandboxVars, editVars, driver, backend, keepArg,
                   keepWorkspace, cpc, container, containerState, backgroundProcesses,
                   procIndex, alive, workspaceExists, teardown, exitStatus>>

\* cli.ts lines 160-185: the results are displayed inside the try block.
CliDisplay ==
    /\ dpc # <<>>
    /\ Head(dpc) = "display"
    /\ \E threw \in BOOLEAN : dpc' = IF threw THEN CatchBlock(driver) ELSE Tail(dpc)
    /\ UNCHANGED <<agentVars, engineVars, sandboxVars, editVars, driver, backend, executed,
                   keepArg, keepWorkspace, cpc, container, containerState, backgroundProcesses,
                   procIndex, alive, workspaceExists, teardown, exitStatus>>

\* cleanup(keepWorkspace) is called: keepWorkspace is set, and cleanup goes to
\* its first operation.
Cleanup ==
    /\ dpc # <<>>
    /\ Head(dpc) = "cleanup"
    /\ cpc = "idle"
    /\ keepWorkspace' = KeepWorkspace(keepArg)
    /\ teardown' = Append(teardown, Done("cleanup"))
    /\ IF backend = "local"
       THEN /\ cpc' = IF backgroundProcesses = <<>> THEN "rm" ELSE "term"
            /\ procIndex' = IF backgroundProcesses = <<>> THEN 0 ELSE 1
       ELSE /\ cpc' = IF container THEN "stop" ELSE "rm"
            /\ UNCHANGED procIndex
    /\ UNCHANGED <<agentVars, engineVars, sandboxVars, editVars, driver, backend, dpc, executed,
                   keepArg, container, containerState, backgroundProcesses, alive,
                   workspaceExists, exitStatus>>

\* local.ts lines 395-399: process.kill(proc.pid, 'SIGTERM') for a known pid;
\* an error skips the rest of the inner try block.
SignalTerm ==
    /\ cpc = "term"
    /\ LET proc == backgroundProcesses[procIndex]
       IN IF proc.pid > 0
          THEN \E code \in IF proc.pid \in alive THEN { "", "EPERM" } ELSE { "ESRCH" } :
                 /\ teardown' = Append(teardown, Event("SIGTERM", proc.pid, code = "", 0, code,
                                                       code \notin { "", "ESRCH" }))
                 /\ cpc' = IF code = "" THEN "grace" ELSE "port"
          ELSE cpc' = "port" /\ UNCHANGED teardown
    /\ UNCHANGED <<agentVars, engineVars, sandboxVars, editVars, driver, backend, dpc, executed,
                   keepArg, keepWorkspace, container, containerState, backgroundProcesses,
                   procIndex, alive, workspaceExists, exitStatus>>

\* local.ts line 400: the two seconds of grace, in which the process may end.
GraceDelay ==
    /\ cpc = "grace"
    /\ \E ended \in BOOLEAN :
         alive' = IF ended THEN alive \ { backgroundProcesses[procIndex].pid } ELSE alive
    /\ cpc' = "check"
    /\ UNCHANGED <<agentVars, engineVars, sandboxVars, editVars, driver, backend, dpc, executed,
                   keepArg, keepWorkspace, container, containerState, backgroundProcesses,
                   procIndex, workspaceExists, teardown, exitStatus>>

\* local.ts lines 402-411: process.kill(pid, 0), then SIGKILL if it did not
\* throw.
CheckAndKill ==
    /\ cpc = "check"
    /\ LET pid == backgroundProcesses[procIndex].pid
           checked == Event("exists", pid, pid \in alive, 0, "", FALSE)
       IN IF StillExists(pid, alive)
          THEN /\ teardown' = teardown \o <<checked, Event("SIGKILL", pid, TRUE, 0, "", FALSE)>>
               /\ alive' = alive \ { pid }
          ELSE /\ teardown' = Append(teardown, checked)
               /\ UNCHANGED alive
    /\ cpc' = "port"
    /\ UNCHANGED <<agentVars, engineVars, sandboxVars, editVars, driver, backend, dpc, executed,
                   keepArg, keepWorkspace, container, containerState, backgroundProcesses,
                   procIndex, workspaceExists, exitStatus>>

\* local.ts lines 421-430: the holders of the port are killed; an error of
\* the commands is ignored.  Then the loop goes to the next entry.
KillByPort ==
    /\ cpc = "port"
    /\ LET proc == backgroundProcesses[procIndex]
       IN IF proc.port # 0
          THEN \E ok \in BOOLEAN :
                 /\ teardown' = Append(teardown, Event("port", 0, ok, 0, "", FALSE))
                 /\ alive' = IF ok
                             THEN alive \ { backgroundProcesses[i].pid :
                                              i \in { j \in 1..Len(backgroundProcesses) :
                                                        backgroundProcesses[j].port = proc.port } }
                             ELSE alive
          ELSE UNCHANGED <<teardown, alive>>
    /\ IF procIndex < Len(backgroundProcesses)
       THEN procIndex' = procIndex + 1 /\ cpc' = "term"
       ELSE procIndex' = procIndex /\ cpc' = "sweep"
    /\ UNCHANGED <<agentVars, engineVars, sandboxVars, editVars, driver, backend, dpc, executed,
                   keepArg, keepWorkspace, container, containerState, backgroundProcesses,
                   workspaceExists, exitStatus>>

\* local.ts lines 434-446: the final sweep over the processes that name the
\* workspace path, its error ignored; the list is emptied.
FinalSweep ==
    /\ cpc = "sweep"
    /\ \E ok \in BOOLEAN : teardown' = Append(teardown, Event("sweep", 0, ok, 0, "", FALSE))
    /\ backgroundProcesses' = <<>>
    /\ cpc' = "rm"
    /\ UNCHANGED <<agentVars, engineVars, sandboxVars, editVars, driver, backend, dpc, executed,
                   keepArg, keepWorkspace, container, containerState, procIndex, alive,
                   workspaceExists, exitStatus>>

\* part_004 lines 365-375: container.stop(); its error goes to the catch
\* block, past container.remove().
StopContainer ==
    /\ cpc = "stop"
    /\ \E status \in StopOutcomes(containerState) :
         /\ teardown' = Append(teardown, Event("stop", 0, status = 0, status, "",
                                               status # 0 /\ WarnsOnStatus(status)))
         /\ IF status = 0
            THEN /\ containerState' = "stopped"
                 /\ cpc' = "remove"
                 /\ UNCHANGED container
            ELSE /\ container' = FALSE
                 /\ cpc' = "rm"
                 /\ UNCHANGED containerState
    /\ UNCHANGED <<agentVars, engineVars, sandboxVars, editVars, driver, backend, dpc, executed,
                   keepArg, keepWorkspace, backgroundProcesses, procIndex, alive,
                   workspaceExists, exitStatus>>

\* part_004 lines 367-375: container.remove(), then the fields are cleared.
RemoveContainer ==
    /\ cpc = "remove"
    /\ \E status \in RemoveOutcomes(containerState) :
         /\ teardown' = Append(teardown, Event("remove", 0, status = 0, status, "",
                                               status # 0 /\ WarnsOnStatus(status)))
         /\ containerState' = IF status = 0 THEN "gone" ELSE containerState
    /\ container' = FALSE
    /\ cpc' = "rm"
    /\ UNCHANGED <<agentVars, engineVars, sandboxVars, editVars, driver, backend, dpc, executed,
                   keepArg, keepWorkspace, backgroundProcesses, procIndex, alive,
                   workspaceExists, exitStatus>>

\* fs.rm(workspaceRoot, { recursive, force }) unless the workspace is kept;
\* its error is logged.  cleanup returns.
RemoveWorkspace ==
    /\ cpc = "rm"
    /\ IF keepWorkspace
       THEN UNCHANGED <<teardown, workspaceExists>>
       ELSE \E ok \in BOOLEAN :
              /\ teardown' = Append(teardown, Event("rm", 0, ok, 0, "", ~ok))
              /\ workspaceExists' = IF ok THEN FALSE ELSE workspaceExists
    /\ cpc' = "done"
    /\ UNCHANGED <<agentVars, engineVars, sandboxVars, editVars, driver, backend, dpc, executed,
                   keepArg, keepWorkspace, container, containerState, backgroundProcesses,
                   procIndex, alive, exitStatus>>

\* `await cleanup(...)` resumes.
CleanupReturns ==
    /\ cpc = "done"
    /\ dpc # <<>>
    /\ Head(dpc) = "cleanup"
    /\ dpc' = Tail(dpc)
    /\ cpc' = "returned"
    /\ UNCHANGED <<agentVars, engineVars, sandboxVars, editVars, driver, backend, executed,
                   keepArg, keepWorkspace, container, containerState, backgroundProcesses,
                   procIndex, alive, workspaceExists, teardown, exitStatus>>

\* "exit": process.exit(result.success ? 0 : 1); "exit1": process.exit(1)
\* after an error; "return": the return to a caller of cleanup.
DriverExit ==
    /\ dpc # <<>>
    /\ Head(dpc) \in { "exit", "exit1", "return" }
    /\ exitStatus' = <<IF Head(dpc) = "return" THEN 0
                       ELSE IF Head(dpc) = "exit" /\ executed = "success" THEN 0
                       ELSE 1>>
    /\ dpc' = <<>>
    /\ UNCHANGED <<agentVars, engineVars, sandboxVars, editVars, driver, backend, executed,
                   keepArg, keepWorkspace, cpc, container, containerState, backgroundProcesses,
                   procIndex, alive, workspaceExists, teardown>>

InitTeardown ==
    /\ AgentIdle
    /\ EngineIdle
    /\ SandboxIdle
    /\ EditIdle
    /\ driver \in { "cli", "validator", "none" }
    /\ backend \in IF driver = "none" THEN { "local", "docker" } ELSE { "local" }
    /\ dpc = TryBlock(driver)
    /\ executed = ""
    /\ keepArg \in IF driver = "none" THEN Optional(BOOLEAN) ELSE { <<TRUE>>, <<FALSE>> }
    /\ keepWorkspace = FALSE
    /\ cpc = "idle"
    /\ container \in IF backend = "docker" THEN BOOLEAN ELSE { FALSE }
    /\ containerState \in IF container THEN { "running", "stopped", "gone" } ELSE { "gone" }
    /\ backgroundProcesses \in IF backend = "local" THEN TrackedLists ELSE { <<>> }
    /\ procIndex = 0
    /\ alive \in SUBSET Pids(backgroundProcesses)
    /\ workspaceExists = TRUE
    /\ teardown = <<>>
    /\ exitStatus = <<>>

NextTeardown ==
    \/ DriverExecute
    \/ CliDisplay
    \/ Cleanup
    \/ SignalTerm
    \/ GraceDelay
    \/ CheckAndKill
    \/ KillByPort
    \/ FinalSweep
    \/ StopContainer
    \/ RemoveContainer
    \/ RemoveWorkspace
    \/ CleanupReturns
    \/ DriverExit

SpecTeardown == InitTeardown /\ [][NextTeardown]_vars

(***************************************************************************)
(* Properties of the teardown.                                             *)
(***************************************************************************)
\* The positions of the teardown history at which the operation was attempted.
Attempts(op) == { i \in 1..Len(teardown) : teardown[i].op = op }

\* cleanup has run to its end.
CleanedUp == cpc \in { "done", "returned" }

\* C23: cleanup returns whatever sub-step fails, and after a failing
\* sub-step the remaining ones are still attempted: removing the container
\* that could not be stopped (unless there is no such container), deleting
\* the workspace directory unless it is kept.
C23_CleanupContinuesAfterFailure ==
    CleanedUp =>
        /\ (\E i \in Attempts("stop") : teardown[i].status # 404) => Attempts("remove") # {}
        /\ ~keepWorkspace => Attempts("rm") # {}

WorkspacePreservedOnHost ==
    /\ CleanedUp
    /\ keepArg = <<TRUE>>
    /\ workspaceExists
    /\ Attempts("SIGTERM") # {}

\* C25: in both drivers, cleanup has been invoked when the process exits,
\* whether execute() resolved with success, resolved with failure or threw.
C25_CleanupBeforeExit ==
    (driver \in { "cli", "validator" } /\ exitStatus # <<>>) =>
        /\ executed # ""
        /\ Attempts("cleanup") # {}
        /\ CleanedUp

\* C25 witness: cli.ts exits after execute() threw.
C25_Witness ==
    /\ driver = "cli"
    /\ executed = "threw"
    /\ exitStatus = <<1>>
    /\ Attempts("cleanup") # {}

\* The validator exits after execute() threw.
ValidatorExitsAfterThrow ==
    /\ driver = "validator"
    /\ executed = "threw"
    /\ exitStatus = <<1>>
    /\ Attempts("cleanup") # {}

\* C29: in DockerSandbox.cleanup the container is stopped, then removed, and
\* only then the workspace directory deleted; an error with status 404 or
\* 409 is swallowed, any other is logged; after cleanup the container has
\* been both stopped and removed unless it was already gone.
C29_ContainerStoppedThenRemoved ==
    /\ \A i \in Attempts("stop"), j \in Attempts("remove") : i < j
    /\ \A i \in Attempts("stop") \cup Attempts("remove"), j \in Attempts("rm") : i < j
    /\ \A i \in Attempts("stop") \cup Attempts("remove") :
          teardown[i].warned <=> (~teardown[i].ok /\ teardown[i].status \notin { 404, 409 })
    /\ (CleanedUp /\ Attempts("stop") # {}) =>
          \/ \E i \in Attempts("stop") : teardown[i].status = 404
          \/ Attempts("remove") # {}

\* The container was running when cleanup was called.
ContainerRemovedAfterStop ==
    (CleanedUp /\ \E i \in Attempts("stop") : teardown[i].ok) => Attempts("remove") # {}

\* The signals of the history sent to the process.
Signals(sig, pid) == { i \in Attempts(sig) : teardown[i].pid = pid }

\* C30: every tracked process with a known pid is sent SIGTERM first and
\* SIGKILL only afterwards, after the grace delay and only if it still
\* exists then; a failure to signal one process does not prevent the
\* teardown of the others, and the tracked list is empty afterwards.
C30_GracefulThenForceful ==
    [][/\ \A j \in 1..Len(teardown') :
            teardown'[j].op = "SIGKILL" =>
                /\ j > 1
                /\ teardown'[j - 1] = Event("exists", teardown'[j].pid, TRUE, 0, "", FALSE)
                /\ \E i \in 1..(j - 1) :
                      teardown'[i] = Event("SIGTERM", teardown'[j].pid, TRUE, 0, "", FALSE)
       /\ (cpc = "sweep" /\ cpc' = "rm") =>
            /\ \A p \in Pids(backgroundProcesses) : Signals("SIGTERM", p) # {}
            /\ backgroundProcesses' = <<>>
       /\ CleanedUp' => backgroundProcesses' = <<>>]_vars

\* C30 witness: the first tracked process could not be signalled, the second
\* was sent SIGTERM and, still there after the delay, SIGKILL.
C30_Witness ==
    /\ CleanedUp
    /\ \E i \in Signals("SIGTERM", 1), j \in Signals("SIGTERM", 2), k \in Signals("SIGKILL", 2) :
          /\ i < j
          /\ j < k
          /\ ~teardown[i].ok
          /\ teardown[i].warned
          /\ teardown[j].ok

\* C31: every cleanup of the host backend performs the final sweep over the
\* processes that name the workspace path, also when no background process
\* was tracked.
C31_FinalSweepAlways ==
    (CleanedUp /\ backend = "local") => Attempts("sweep") # {}

\* The same for the runs that tracked a background process.
FinalSweepWhenTracked ==
    (CleanedUp /\ backend = "local" /\ Attempts("SIGTERM") \cup Attempts("port") # {}) =>
        Attempts("sweep") # {}

(***************************************************************************)
(* The stream decoder on chunks of complete frames, with the frames of     *)
(* every stream selector the container runtime sends.                      *)
(***************************************************************************)
\* The stream selectors: 0 is stdin, 1 stdout, 2 stderr.
Selectors == { 0, STDOUT, STDERR }

SelectorFrames ==
    { Frame(t, p) : t \in Selectors, p \in { <<>>, <<104>>, <<104, 10>> } }

\* The stream of a command arrives cut at boundaries of its frames.
InitFrames ==
    /\ AgentIdle
    /\ EngineIdle
    /\ frames \in UNION { [1..n -> SelectorFrames] : n \in 0..MaxFrames }
    /\ processExitCode = 0
    /\ commandDir = EmptyStr
    /\ \E cuts \in SUBSET FrameBoundaries(frames) :
          chunks = Split(Stream(frames), cuts, 0)
    /\ stdoutChunks = <<>>
    /\ stderrChunks = <<>>
    /\ dockerResult = <<>>
    /\ localResult = <<>>
    /\ EditIdle
    /\ TeardownIdle

SpecFrames == InitFrames /\ [][NextStream]_vars

\* The payloads of the frames with the selector, in the order of arrival.
RECURSIVE PayloadsOf(_, _)
PayloadsOf(fs, selector) ==
    IF fs = <<>> THEN <<>>
    ELSE (IF Head(fs).streamType = selector THEN Head(fs).payload ELSE <<>>)
            \o PayloadsOf(Tail(fs), selector)

RECURSIVE Flat(_)
Flat(bufs) == IF bufs = <<>> THEN <<>> ELSE Head(bufs) \o Flat(Tail(bufs))

\* C32: once the chunks, each of complete frames, have been handled, stdout
\* is the payloads of the frames with selector 1 and stderr those of the
\* frames with selector 2, each in arrival order; the frames with another
\* selector are in neither.
C32_FramesDemultiplexed ==
    chunks = <<>> =>
        /\ Flat(stdoutChunks) = PayloadsOf(frames, 1)
        /\ Flat(stderrChunks) = PayloadsOf(frames, 2)

\* C32 witness: a stdin frame and a stderr frame were decoded.
C32_Witness ==
    /\ chunks = <<>>
    /\ dockerResult # <<>>
    /\ frames = << Frame(0, <<104>>), Frame(2, <<104, 10>>) >>
    /\ stdoutChunks = <<>>
    /\ stderrChunks = << <<104, 10>> >>

(***************************************************************************)
(* Properties of the anchor of a ContextAnchor edit.                       *)
(***************************************************************************)
\* The text with the content put in front of its 0-based line j (at the end
\* if it has no such line).
InsertedAt(t, j, content) ==
    LET lines == SplitLines(t)
        at == IF j <= Len(lines) THEN j ELSE Len(lines)
    IN JoinLines(SubSeq(lines, 1, at) \o <<content>> \o SubSeq(lines, at + 1, Len(lines)))

\* A ContextAnchor edit with the action whose pattern occurs in the file.
AppliesFound(action) ==
    /\ Applies("context")
    /\ fileChange'[1].action = action
    /\ Includes(TextOf(file), fileChange'[1].searchPattern)

\* The 0-based line on which the first occurrence of the pattern starts.
FirstLineOf(t, pattern) ==
    IF Newlines(pattern) = 0 THEN MatchedIndex(t, pattern)
    ELSE AnchorIndex(t, pattern) - Newlines(pattern) - 1

C34_BeforePutsContentAboveMatch ==
    [][AppliesFound("before") =>
          /\ editResult'[1].success
          /\ \E j \in 0..FirstLineOf(TextOf(file), fileChange'[1].searchPattern) :
                TextOf(file') = InsertedAt(TextOf(file), j, fileChange'[1].content)]_vars

\* The same for the single-line patterns.
BeforePutsContentAboveMatchedLine ==
    [][(AppliesFound("before") /\ Newlines(fileChange'[1].searchPattern) = 0) =>
          /\ editResult'[1].success
          /\ TextOf(file') = InsertedAt(TextOf(file),
                                        MatchedIndex(TextOf(file), fileChange'[1].searchPattern),
                                        fileChange'[1].content)]_vars


(***************************************************************************)
(* LocalSandbox.applyFileChange of sandbox/local.ts: the host sandbox      *)
(* carries its own copy of the edit code instead of calling                *)
(* applyFileChangeToContents.                                              *)
(***************************************************************************)
\* Lines 257-267: the search of the anchor, line by line whatever the
\* pattern is.
LocalFindIndex(contents, pattern) ==
    LET lines == SplitLines(contents)
        hits == { i \in 0..(Len(lines) - 1) : Includes(lines[i + 1], pattern) }
    IN IF hits = {} THEN NotFound
       ELSE Found(CHOOSE i \in hits : \A j \in hits : i <= j)

\* Lines 242-362: the context branch; from the anchor on it is the code of
\* applyContextChange.
LocalContextChange(contents, change, isJsonFile) ==
    LET lines == SplitLines(contents)
        found == LocalFindIndex(contents, change.searchPattern)
        foundIndex == found.index
    IN IF found.threw THEN Thrown("Search pattern not found")
       ELSE IF change.action = "before"
       THEN Returned(JoinLines(Splice(lines, foundIndex, 0, <<change.content>>)))
       ELSE IF change.action = "after"
       THEN IF isJsonFile /\ foundIndex >= 0 /\ foundIndex < Len(lines)
            THEN Returned(JoinLines(InsertAfterJson(lines, foundIndex, change.content)))
            ELSE Returned(JoinLines(Splice(lines, foundIndex + 1, 0, <<change.content>>)))
       ELSE IF change.action = "replace"
       THEN Returned(JoinLines(SetLine(lines, foundIndex, change.content)))
       ELSE Returned(JoinLines(lines))

\* Lines 204-362: what the method writes to the file, or the error it throws
\* before writing.
LocalFileChange(contents, change, isJsonFile) ==
    IF change.type = "replace" THEN Returned(change.contents)
    ELSE IF change.type = "diff" THEN Returned(applyDiffChange(contents, change))
    ELSE IF change.type = "context" THEN LocalContextChange(contents, change, isJsonFile)
    ELSE Returned(contents)

\* LocalSandbox.applyFileChange called by executeChangeFileStep: a file that
\* cannot be read counts as empty.
LocalApplyFileChange(c) ==
    LET contents == IF file = <<>> THEN <<>> ELSE file[1]
        modified == LocalFileChange(contents, c, jsonPath)
        applied == [threw |-> modified.threw, msg |-> modified.msg]
    IN /\ editResult = <<>>
       /\ fileChange' = <<c>>
       /\ file' = IF modified.threw THEN file ELSE <<modified.contents>>
       /\ editResult' =
             <<executeStep(EditStep(c), executeChangeFileStep(EditStep(c), 1, EmptyStr, applied))>>
       /\ UNCHANGED <<agentVars, engineVars, sandboxVars, teardownVars, jsonPath>>

NextLocalEdit == \E c \in FileChanges : LocalApplyFileChange(c)

SpecLocalEdit == InitEdit /\ [][NextLocalEdit]_vars

\* C35: whatever the edit and the file, the host sandbox leaves in the file
\* exactly the text applyFileChangeToContents returns for the contents the
\* file had (empty when it was absent), and the step fails exactly when that
\* function throws; edits anchored at a multi-line pattern are included.
C35_LocalSandboxAppliesEngineResult ==
    [][(fileChange = <<>> /\ fileChange' # <<>>) =>
          LET engine == applyFileChangeToContents(TextOf(file), fileChange'[1], jsonPath)
          IN /\ editResult'[1].success = ~engine.threw
             /\ ~engine.threw => file' = <<engine.contents>>
             /\ engine.threw => file' = file]_vars

\* The same equivalence for every edit but those anchored at a multi-line
\* pattern.
LocalSandboxAppliesEngineResultSingleLine ==
    [][(/\ fileChange = <<>> /\ fileChange' # <<>>
        /\ IF fileChange'[1].type = "context"
           THEN Newlines(fileChange'[1].searchPattern) = 0 ELSE TRUE) =>
          LET engine == applyFileChangeToContents(TextOf(file), fileChange'[1], jsonPath)
          IN /\ editResult'[1].success = ~engine.threw
             /\ ~engine.threw => file' = <<engine.contents>>
             /\ engine.threw => file' = file]_vars


(***************************************************************************)
(* Properties of the paths and of the working directory of the engine.     *)
(***************************************************************************)
\* The calls of the given sandbox method made for step k.
CallsOf(k, op) == { i \in DOMAIN calls : calls[i].step = k /\ calls[i].op = op }

\* Step k is an edit of a relative path and step k + 1 a file-contents
\* check of the same relative path, and both reached the sandbox.
EditThenCheck(k) ==
    /\ k + 1 <= Len(spec.steps)
    /\ spec.steps[k].type = "change-file"
    /\ spec.steps[k + 1].type = "validate"
    /\ spec.steps[k + 1].validation.type = "file-contents"
    /\ ~spec.steps[k].change.path.abs
    /\ spec.steps[k + 1].validation.path = spec.steps[k].change.path
    /\ CallsOf(k, "applyFileChange") # {}
    /\ CallsOf(k + 1, "fileExists") # {}

\* C36: a check of relative path p that directly follows an edit of p looks
\* at the file the edit wrote, whatever the working directory is: the path
\* handed to fileExists is the path handed to applyFileChange (the sandbox
\* resolves both against the workspace root).
C36_CheckReadsEditedPath ==
    \A k \in 1..Len(spec.steps) :
        EditThenCheck(k) =>
            \A i \in CallsOf(k, "applyFileChange"), j \in CallsOf(k + 1, "fileExists") :
                calls[j].dir = calls[i].dir

\* The same in the workspace root.
CheckReadsEditedPathAtRoot ==
    \A k \in 1..Len(spec.steps) :
        (EditThenCheck(k) /\ ~Truthy(currentWorkingDir)) =>
            \A i \in CallsOf(k, "applyFileChange"), j \in CallsOf(k + 1, "fileExists") :
                calls[j].dir = calls[i].dir


\* C37: currentWorkingDir changes only in the handling of a run-command
\* step whose command is a cd command and whose command exited with 0; edit
\* steps, validations, other commands (with a workingDirectory of their own
\* or not) and cd commands that exit with another code leave it as it is;
\* execute() enters its loop with the workingDirectory of the spec.
C37_WorkingDirChangesOnlyOnCd ==
    [][/\ (currentWorkingDir' # currentWorkingDir) =>
             /\ pc = "steps"
             /\ CurStep.type = "run-command"
             /\ CurStep.command.kind = "cd"
             /\ \E i \in (Len(calls) + 1)..Len(calls') :
                   /\ calls'[i].op = "executeCommand"
                   /\ ~calls'[i].threw
                   /\ calls'[i].exitCode = 0
       /\ (pc = "prerequisites" /\ pc' = "steps") =>
             currentWorkingDir' = spec.workingDirectory]_vars

\* A cd x in the root has succeeded, after a command that ran in a
\* directory of its own and left the working directory alone.
C37_Witness ==
    /\ pc = "done"
    /\ Len(spec.steps) = 2
    /\ Truthy(spec.steps[1].workingDirectory)
    /\ spec.steps[1].command.kind = "other"
    /\ spec.steps[2].command.kind = "cd"
    /\ spec.workingDirectory = EmptyStr
    /\ Len(stepResults) = 2
    /\ currentWorkingDir = Rel(<<"x">>)


(***************************************************************************)
(* An edit applied by either sandbox: DockerSandbox.applyFileChange or     *)
(* LocalSandbox.applyFileChange.                                           *)
(***************************************************************************)
NextSandboxEdit == NextEdit \/ NextLocalEdit

SpecSandboxEdit == InitEdit /\ [][NextSandboxEdit]_vars

\* C38: an Edit step that fails because the pattern of its ContextAnchor
\* edit is not found writes nothing: the file has the content it had, and a
\* file that did not exist still does not exist.
C38_FailedAnchorWritesNothing ==
    [][(Applies("context") /\ ~editResult'[1].success) =>
          /\ editResult'[1].error = <<ExceptionError("Search pattern not found")>>
          /\ file' = file]_vars

\* An edit anchored at a pattern failed on a file that does not exist.
C38_Witness ==
    /\ file = <<>>
    /\ fileChange # <<>>
    /\ fileChange[1].type = "context"
    /\ fileChange[1].searchPattern = <<"a">>
    /\ editResult # <<>>
    /\ ~editResult[1].success


\* The FileState check of step k configures a content predicate.
HasContentPredicate(k) ==
    LET check == spec.steps[k].validation.check
    IN check.contains # <<>> \/ check.equals # <<>> \/ check.matches # <<>>

\* C39: a FileState check with a content predicate (contains, equals or
\* matches, the empty string included as expected value) on a path that
\* does not exist is a failed step, whatever its exists requirement; a
\* check of a missing file passes only without content predicate and with
\* exists false or not specified.
C39_ContentCheckOfMissingFileFails ==
    \A k \in FileChecks :
        ~FilePresent(k) =>
            /\ HasContentPredicate(k) => ~stepResults[k].success
            /\ stepResults[k].success => spec.steps[k].validation.check.exists # <<TRUE>>

\* The same for the expected values that are not the empty string.
NonEmptyContentCheckOfMissingFileFails ==
    \A k \in FileChecks :
        LET check == spec.steps[k].validation.check
        IN (/\ ~FilePresent(k)
            /\ TruthyText(check.contains) \/ TruthyText(check.equals)
                  \/ TruthyPattern(check.matches)) => ~stepResults[k].success


(***************************************************************************)
(* The retry loop of the validator's main (tutorial-agent cli.ts): steps   *)
(* are extracted, validated against the schema and executed, up to         *)
(* maxIters times. An error thrown inside main reaches main().catch, which *)
(* exits with 1.                                                           *)
(***************************************************************************)
\* What an iteration did: ok is whether the operation passed (safeParse,
\* execute) or returned (the others), executor the number of the executor
\* constructed, counted from 1, 0 where none is involved.
Attempt(i, op, ok, executor) == [iter |-> i, op |-> op, ok |-> ok, executor |-> executor]

Constructed == { k \in 1..Len(attempts) : attempts[k].op = "construct" }

\* A write to a file of the debug directory or to the --out file: it can
\* throw when the flag asks for it.
WriteThrows(flag) == IF flag THEN BOOLEAN ELSE { FALSE }

\* main().catch: process.exit(1).
Fatal ==
    /\ agentExit' = <<1>>
    /\ apc' = "exited"

\* Lines 59-74: the loop test, extractSteps and the debug files of the
\* iteration. The loop ends when iter > maxIters.
ExtractSteps ==
    /\ apc = "loop"
    /\ iter <= maxIters
    /\ \E outcome \in { "spec", "threw" }, threw \in WriteThrows(debugFiles) :
         /\ attempts' = Append(attempts, Attempt(iter, "extractSteps", outcome = "spec", 0))
         /\ IF outcome = "threw" \/ threw
            THEN Fatal
            ELSE apc' = "safeParse" /\ UNCHANGED agentExit
    /\ UNCHANGED <<maxIters, outFile, debugFiles, iter, priorFailures>>
    /\ UNCHANGED <<engineVars, sandboxVars, editVars, teardownVars>>

\* Lines 83-101: TutorialSpecSchema.safeParse(spec); on failure a dossier is
\* pushed and the loop continues with the next iteration.
SafeParse ==
    /\ apc = "safeParse"
    /\ \E success \in BOOLEAN, threw \in WriteThrows(debugFiles) :
         /\ attempts' = Append(attempts, Attempt(iter, "safeParse", success, 0))
         /\ IF success
            THEN /\ apc' = "outFile"
                 /\ UNCHANGED <<iter, priorFailures, agentExit>>
            ELSE /\ priorFailures' = Append(priorFailures, "schema-validation")
                 /\ IF threw
                    THEN Fatal /\ UNCHANGED iter
                    ELSE /\ iter' = iter + 1
                         /\ apc' = "loop"
                         /\ UNCHANGED agentExit
    /\ UNCHANGED <<maxIters, outFile, debugFiles>>
    /\ UNCHANGED <<engineVars, sandboxVars, editVars, teardownVars>>

\* Lines 104-111: the spec is written to the --out file, then
\* new TutorialExecutor(spec, undefined, ...) with a sandbox of its own.
Construct ==
    /\ apc = "outFile"
    /\ \E threw \in WriteThrows(outFile) :
         IF threw
         THEN Fatal /\ UNCHANGED attempts
         ELSE /\ attempts' =
                    Append(attempts, Attempt(iter, "construct", TRUE, Cardinality(Constructed) + 1))
              /\ apc' = "execute"
              /\ UNCHANGED agentExit
    /\ UNCHANGED <<maxIters, outFile, debugFiles, iter, priorFailures>>
    /\ UNCHANGED <<engineVars, sandboxVars, editVars, teardownVars>>

\* Line 115: executor.execute().finally(() => executor.cleanup(keepWorkspace))
AgentExecute ==
    /\ apc = "execute"
    /\ \E outcome \in { "success", "failure", "threw" } :
         /\ attempts' = Append(attempts, Attempt(iter, IF outcome = "threw" THEN "threw"
                                                       ELSE "execute",
                                                  outcome = "success", Cardinality(Constructed)))
         /\ IF outcome = "threw" THEN Fatal
            ELSE /\ apc' = IF outcome = "success" THEN "succeeded" ELSE "failed"
                 /\ UNCHANGED agentExit
    /\ UNCHANGED <<maxIters, outFile, debugFiles, iter, priorFailures>>
    /\ UNCHANGED <<engineVars, sandboxVars, editVars, teardownVars>>

\* Lines 122-133: result.success; failures.md is written with --debugFiles,
\* writeReport writes <outFile>.report.json with require('fs').writeFileSync
\* when --out is given, then process.exit(0).
Succeed ==
    /\ apc = "succeeded"
    /\ \E debugThrew \in WriteThrows(debugFiles), reportThrew \in WriteThrows(outFile) :
         agentExit' = <<IF debugThrew \/ reportThrew THEN 1 ELSE 0>>
    /\ apc' = "exited"
    /\ UNCHANGED <<maxIters, outFile, debugFiles, iter, priorFailures, attempts>>
    /\ UNCHANGED <<engineVars, sandboxVars, editVars, teardownVars>>

\* Lines 136-157: the failure dossier is pushed, and the loop goes on.
Retry ==
    /\ apc = "failed"
    /\ priorFailures' = Append(priorFailures, "execution-failure")
    /\ \E threw \in WriteThrows(debugFiles) :
         IF threw THEN Fatal /\ UNCHANGED iter
         ELSE /\ iter' = iter + 1
              /\ apc' = "loop"
              /\ UNCHANGED agentExit
    /\ UNCHANGED <<maxIters, outFile, debugFiles, attempts>>
    /\ UNCHANGED <<engineVars, sandboxVars, editVars, teardownVars>>

\* Lines 159-169: the retries are exhausted: writeReport({ ok: false, ... })
\* and process.exit(1).
Exhausted ==
    /\ apc = "loop"
    /\ ~(iter <= maxIters)
    /\ agentExit' = <<1>>
    /\ apc' = "exited"
    /\ UNCHANGED <<maxIters, outFile, debugFiles, iter, priorFailures, attempts>>
    /\ UNCHANGED <<engineVars, sandboxVars, editVars, teardownVars>>

\* main at the head of its loop, the flags read.
InitAgent ==
    /\ EngineIdle
    /\ SandboxIdle
    /\ EditIdle
    /\ TeardownIdle
    /\ maxIters \in 0..MaxIters
    /\ outFile \in BOOLEAN
    /\ debugFiles \in BOOLEAN
    /\ iter = 1
    /\ apc = "loop"
    /\ priorFailures = <<>>
    /\ attempts = <<>>
    /\ agentExit = <<>>

NextAgent ==
    \/ ExtractSteps
    \/ SafeParse
    \/ Construct
    \/ AgentExecute
    \/ Succeed
    \/ Retry
    \/ Exhausted

SpecAgent == InitAgent /\ [][NextAgent]_vars

(***************************************************************************)
(* Properties of the retry loop.                                           *)
(***************************************************************************)
Did(op) == { k \in 1..Len(attempts) : attempts[k].op = op }

\* Some execution returned a result with success = true.
SomeSuccess == \E k \in Did("execute") : attempts[k].ok

\* At most maxIters extractions; an execution only in an iteration whose
\* spec passed the schema; an executor of its own for each execution.
RetryLoopBounded ==
    /\ Cardinality(Did("extractSteps")) <= maxIters
    /\ \A k \in Did("execute") \cup Did("threw") :
          /\ \E j \in Did("safeParse") : attempts[j].iter = attempts[k].iter /\ attempts[j].ok
          /\ \E j \in Constructed :
                attempts[j].iter = attempts[k].iter /\ attempts[j].executor = attempts[k].executor
    /\ \A k, j \in Did("execute") \cup Did("threw") :
          attempts[k].executor = attempts[j].executor => k = j

\* C40: the retry loop ends after at most maxIters extractions, executes a
\* spec only in an iteration in which it passed the schema validation, with
\* a new executor for each execution, and main exits with 0 exactly when
\* some execution returned success = true, with 1 otherwise.
C40_RetryLoopExitCode ==
    /\ RetryLoopBounded
    /\ agentExit # <<>> => (agentExit[1] = 0 <=> SomeSuccess)

\* Main exits with 0 only after an execution that succeeded.
ExitZeroOnlyAfterSuccess == agentExit = <<0>> => SomeSuccess

\* Without --out and --debugFiles main exits with 0 exactly when some
\* execution returned success = true.
ExitCodeWithoutFilesToWrite ==
    (agentExit # <<>> /\ ~outFile /\ ~debugFiles /\ Did("threw") = {}) =>
        (agentExit[1] = 0 <=> SomeSuccess)

====
